---------------------------- MODULE Spec2Model ----------------------------
(***************************************************************************)
(* Scroll-synchronised media player of assets/js/alt_slider/slider_main.js *)
(* (create, jumpToTime, checkBuffered, checkForPauses, showFallback,       *)
(* hideFallback, loadFallbackImages, updateStill, setSrc) together with    *)
(* the part of ScrollMagic.Scene.progress that feeds its progress handler. *)
(*                                                                         *)
(* Numbers.  JavaScript numbers are modelled in fixed point: a scroll       *)
(* percentage, a buffered bound and a pause bound x is the integer          *)
(* x * Unit, a frame f is f * Unit (milli-frames) and a play position of    *)
(* t seconds is t * Unit.  frameLength, frameRate, keyFrameLength and       *)
(* stepDivisor are plain integers, as parseInt leaves them.  A division     *)
(* rounds toward zero at that resolution (Div).  currPct of checkBuffered   *)
(* is frameToUse / frameLength; it is never rounded: every comparison of    *)
(* currPct with a percentage x is made between frameToUse and               *)
(* x * frameLength.  NaN is the value an undefined or unparsable            *)
(* percentage takes in a comparison: every comparison with it is false.     *)
(***************************************************************************)
EXTENDS Integers, Sequences, FiniteSets, TLC

Unit == 10 * 10 * 10

NaN == 0 - (Unit * Unit)

\* ---------------------------------------------------------------- bounds
MaxTimers == 1

MaxJumps == 2

MaxWidthStep == 4

MaxVideos == 2

MaxRaf == 2

MaxEvents == 2

\* ------------------------------------------------------- JavaScript numbers
Abs(x) == IF x < 0 THEN 0 - x ELSE x

Div(a, b) == IF a >= 0 THEN a \div b ELSE 0 - ((0 - a) \div b)

Floor(x) == x \div Unit

JsGt(a, b) == a # NaN /\ b # NaN /\ a > b

JsGe(a, b) == a # NaN /\ b # NaN /\ a >= b

JsLt(a, b) == a # NaN /\ b # NaN /\ a < b

JsLe(a, b) == a # NaN /\ b # NaN /\ a <= b

\* a percentage put on the scale of currPct (see the header)
OnFrameScale(x, frameLength) == IF x = NaN THEN NaN ELSE x * frameLength

\* --------------------------------------------------------- slide percents
\* a slide's percent as DOC holds it: a numeric string ("0.065", its value in
\* thousandths), the empty string, a numeric string followed by other text
\* ("0.5px"), any other text ("half"), or no percent at all
Num(v) == [kind |-> "numeric", value |-> v]

Suffixed(v) == [kind |-> "suffixed", value |-> v]

EmptyPercent == [kind |-> "empty", value |-> 0]

TextPercent == [kind |-> "text", value |-> 0]

NoPercent == [kind |-> "undefined", value |-> 0]

Numeric(s) == [ i \in 1..Len(s) |-> Num(s[i]) ]

\* Number.parseFloat: the leading number of the text, NaN when there is none
parseFloat(p) == IF p.kind \in {"numeric", "suffixed"} THEN p.value ELSE NaN

\* the number a comparison with a number makes of the value: the whole text
\* must be a number, the empty string is 0
ToNumber(p) ==
    IF p.kind = "numeric" THEN p.value
    ELSE IF p.kind = "empty" THEN 0 ELSE NaN

\* ------------------------------------------------------------ the bindings
stepDivisor == 10

\* slides holds each slide's percent as the comparisons of checkBuffered and
\* showFallback read it, percent as DOC holds it
\* the first scrolling video of DOC.body
DocTop ==
    [ id |-> "scrolling_video_top", frameRate |-> 30, frameLength |-> 600,
      keyFrameLength |-> 3, startScroll |-> 100, endScroll |-> 900,
      slides |-> << 65, 210, 400, 500, 620, 720, 950 >>,
      percent |-> Numeric(<< 65, 210, 400, 500, 620, 720, 950 >>),
      pauses |-> << >>, singleFrames |-> TRUE,
      desktop |-> << 1024, 1024 >>, mobile |-> << 800, 800 >> ]

\* the second scrolling video of DOC.body
DocDefects ==
    [ id |-> "scrolling_video_defects", frameRate |-> 30, frameLength |-> 600,
      keyFrameLength |-> 3, startScroll |-> 0, endScroll |-> 900,
      slides |-> << 30, 100, 170, 250, 333, 416, 499, 583, 666, 749, 830, 910 >>,
      percent |-> Numeric(<< 30, 100, 170, 250, 333, 416, 499, 583, 666, 749, 830, 910 >>),
      pauses |-> << >>, singleFrames |-> TRUE,
      desktop |-> << 1024, 1024 >>, mobile |-> << 800, 800 >> ]

\* a short video over the sub-range [0.1, 0.9], two slides, no pause region
ShortClip ==
    [ id |-> "short", frameRate |-> 5, frameLength |-> 10,
      keyFrameLength |-> 3, startScroll |-> 100, endScroll |-> 900,
      slides |-> << 200, 600 >>,
      percent |-> Numeric(<< 200, 600 >>),
      pauses |-> << >>, singleFrames |-> TRUE,
      desktop |-> << 960, 1280 >>, mobile |-> << 640, 800 >> ]

\* the default sub-range [0, 1], a first slide at 0 and one pause region
PausedClip ==
    [ id |-> "paused", frameRate |-> 5, frameLength |-> 10,
      keyFrameLength |-> 3, startScroll |-> 0, endScroll |-> 1000,
      slides |-> << 0, 500 >>,
      percent |-> Numeric(<< 0, 500 >>),
      pauses |-> << [start |-> 500, end |-> 1000] >>, singleFrames |-> FALSE,
      desktop |-> << 960, 1280 >>, mobile |-> << 640, 800 >> ]

Bindings == { ShortClip, PausedClip }

\* what video.buffered may hold: a sequence of [start, end] ranges
BufferedChoices ==
    { << >>,
      << [start |-> 0, end |-> 550] >>,
      << [start |-> 0, end |-> 300], [start |-> 450, end |-> 2000] >>,
      << [start |-> 0, end |-> 2000] >> }

\* the values Scene.update hands to Scene.progress
RawProgress == { 0 - 100, 50, 500, 900, 1200 }

VARIABLES
    obj,               \* the binding's configuration record (create's obj)
    scrollPct,         \* create: scrollPct
    videoLastFrame,    \* create: videoLastFrame
    videoShouldUpdate, \* create: videoShouldUpdate
    readyState,        \* create: readyState (the binding's ready flag)
    playThroughTimer,  \* TRUE while the readiness interval is installed
    fallbackImages,    \* create: fallbackImages, with each image's state
    loadTimer,         \* index the pending 100 ms loader timer will request, 0 if none
    timers,            \* pending 10 ms jumpToTime timers, oldest first
    video,             \* style.visibility and currentTime of obj.vidEl
    seeked,            \* a timeupdate event is due after a currentTime write
    still,             \* obj.stillImage: show class, frame of src, load in flight
    sceneState,        \* ScrollMagic scene state: BEFORE, DURING, AFTER
    page,              \* winWidth and aspect of the page
    size,              \* obj.size, 0 while unset
    jumps,             \* number of jumpToTime runs so far
    last,              \* history: what the step just taken was given and computed,
                       \* when it was jumpToTime or the progress handler
    videos,            \* init: videos, one record per scrolling video of DOC.body
    vidsLoaded,        \* module: vidsLoaded
    now,               \* milliseconds since init ran
    winHeight,         \* windowSize ().height as the window is now
    throttled,         \* module: throttled (shared by every binding)
    updateScenes,      \* Controller: c, "false", "true" or "array"
    rafRequests,       \* animation-frame callbacks requested and not yet run
    scrollTop,         \* the container's scroll position, as the progress it maps to
    frameLog,          \* history: the container events, the callbacks requested by
                       \* them and the progress computations of the current frame
    slideTop,          \* setupPage: style.top of each slide's annotation, in
                       \* thousandths of a pixel
    env,               \* the classifier module: the browser's user agent, window
                       \* and screen, cache, cachedViewport, the class list of
                       \* the document root and the timeout of debounce
    envLog,            \* history: the classifier call or prepEnvironment run
                       \* just made, and the calls of the debounced function
    sceneLog           \* Scene.progress: the events the running call has still to
                       \* trigger and their payload; history: the event triggered
                       \* last and the enters not yet followed by a leave

playerVars == << obj, scrollPct, videoLastFrame, videoShouldUpdate, readyState,
                 playThroughTimer, fallbackImages, loadTimer, timers, video,
                 seeked, still, sceneState, page, size, jumps, last >>

pageVars == << videos, vidsLoaded, now, winHeight, throttled >>

ctrlVars == << updateScenes, rafRequests, scrollTop, frameLog >>

\* the document outside the player's elements
domVars == << slideTop, env, envLog >>

hostVars == << pageVars, ctrlVars, domVars, sceneLog >>

vars == << playerVars, pageVars, ctrlVars, domVars, sceneLog >>

\* ------------------------------------------------------------ pure helpers
\* getTimeFromKeyframe without the division by the frame rate
getTimeFromKeyframeAsFrame(keyframe) == keyframe

getTimeFromKeyframe(keyframe) == Div(keyframe, obj.frameRate)

Clamp(x, lo, hi) == IF x < lo THEN lo ELSE IF x > hi THEN hi ELSE x

\* jumpToPct with the end of the range tested by > in place of >=
jumpToPctStrictEnd(sp) ==
    IF sp > obj.startScroll /\ sp < obj.endScroll
    THEN LET adjustedPct == Div((sp - obj.startScroll) * Unit,
                                obj.endScroll - obj.startScroll)
         IN  IF adjustedPct > Unit THEN Unit
             ELSE IF adjustedPct < 0 THEN 0 ELSE adjustedPct
    ELSE IF sp > obj.endScroll THEN Unit ELSE 0

\* jumpToPct with startScroll not subtracted from the scroll percentage
jumpToPctNoOffset(sp) ==
    IF sp > obj.startScroll /\ sp < obj.endScroll
    THEN LET adjustedPct == Div(sp * Unit, obj.endScroll - obj.startScroll)
         IN  IF adjustedPct > Unit THEN Unit
             ELSE IF adjustedPct < 0 THEN 0 ELSE adjustedPct
    ELSE IF sp >= obj.endScroll THEN Unit ELSE 0

\* adjustScrollPct: the jumpToPct handed to jumpToTime for scroll percentage sp
jumpToPct(sp) ==
    IF sp > obj.startScroll /\ sp < obj.endScroll
    THEN LET adjustedPct == Div((sp - obj.startScroll) * Unit,
                                obj.endScroll - obj.startScroll)
         IN  IF adjustedPct > Unit THEN Unit
             ELSE IF adjustedPct < 0 THEN 0 ELSE adjustedPct
    ELSE IF sp >= obj.endScroll THEN Unit ELSE 0

\* checkBuffered, first loop: fallbackLen counts down from obj.slides.length;
\* k is fallbackLen + 1 of the iteration (sequences are 1-based)
RECURSIVE fallbackRange(_, _)
fallbackRange(k, frameToUse) ==
    IF k = 0 THEN [start |-> 0, end |-> 0]
    ELSE IF k > Len(fallbackImages) THEN [start |-> 0, end |-> 0]
    ELSE IF JsGt(frameToUse, OnFrameScale(fallbackImages[k].start, obj.frameLength))
         THEN [start |-> fallbackImages[k].start,
               end   |-> IF k = Len(obj.slides) THEN Unit
                         ELSE fallbackImages[k + 1].start]
         ELSE fallbackRange(k - 1, frameToUse)

\* the first loop without the test fallbackImages[fallbackLen] === undefined
RECURSIVE fallbackReadsUnguarded(_, _)
fallbackReadsUnguarded(k, frameToUse) ==
    IF k = 0 THEN {}
    ELSE IF k > Len(fallbackImages) THEN { k }
    ELSE IF JsGt(frameToUse, OnFrameScale(fallbackImages[k].start, obj.frameLength))
         THEN { k } \cup (IF k = Len(obj.slides) THEN {} ELSE { k + 1 })
         ELSE { k } \cup fallbackReadsUnguarded(k - 1, frameToUse)

\* checkBuffered, first loop: the entries of fallbackImages whose start the
\* loop reads from fallbackLen + 1 = k down, 1-based; the loop breaks at an
\* undefined entry before it reads it
RECURSIVE fallbackReads(_, _)
fallbackReads(k, frameToUse) ==
    IF k = 0 THEN {}
    ELSE IF k > Len(fallbackImages) THEN {}
    ELSE IF JsGt(frameToUse, OnFrameScale(fallbackImages[k].start, obj.frameLength))
         THEN { k } \cup (IF k = Len(obj.slides) THEN {} ELSE { k + 1 })
         ELSE { k } \cup fallbackReads(k - 1, frameToUse)

\* checkBuffered, second loop: some buffered range holds currPct and the range
rangeBuffered(b, currN, range) ==
    \E i \in 1..Len(b) :
        /\ JsGe(currN, OnFrameScale(b[i].start, obj.frameLength))
        /\ JsLe(currN, OnFrameScale(b[i].end, obj.frameLength))
        /\ JsGe(range.start, b[i].start)
        /\ JsLe(range.end, b[i].end)

checkBuffered(b, frameToUse) ==
    IF ~readyState THEN FALSE
    ELSE LET currN == Clamp(frameToUse, 0, Unit * obj.frameLength)
         IN  rangeBuffered(b, currN, fallbackRange(Len(obj.slides), currN))

\* pauseFrame with the bounds of a pause region tested by >= and <=
RECURSIVE pauseFrameInclusive(_, _, _)
pauseFrameInclusive(k, frameToUse, pct) ==
    IF k = 0 THEN frameToUse
    ELSE IF JsGe(pct, obj.pauses[k].start) /\ JsLe(pct, obj.pauses[k].end)
         THEN LET adjNextFrame == obj.frameLength * obj.pauses[k].start
              IN  videoLastFrame + Div(adjNextFrame - videoLastFrame, stepDivisor)
         ELSE pauseFrameInclusive(k - 1, frameToUse, pct)

\* checkForPauses: pausesLen counts down, k is pausesLen + 1
RECURSIVE pauseFrame(_, _, _)
pauseFrame(k, frameToUse, pct) ==
    IF k = 0 THEN frameToUse
    ELSE IF JsGt(pct, obj.pauses[k].start) /\ JsLt(pct, obj.pauses[k].end)
         THEN LET adjNextFrame == obj.frameLength * obj.pauses[k].start
              IN  videoLastFrame + Div(adjNextFrame - videoLastFrame, stepDivisor)
         ELSE pauseFrame(k - 1, frameToUse, pct)

checkForPauses(frameToUse, pct) == pauseFrame(Len(obj.pauses), frameToUse, pct)

\* showFallback with an image's start tested by > in place of >=
showFallbackStrict ==
    [ index \in 1..Len(fallbackImages) |->
        [ fallbackImages[index] EXCEPT !.show =
            \/ JsGt(scrollPct, fallbackImages[index].start) /\ scrollPct > 0
            \/ JsLt(scrollPct, fallbackImages[index].start) /\ index = 1 ] ]

\* showFallback: the show class of every image of fallbackImages afterwards
showFallback ==
    [ index \in 1..Len(fallbackImages) |->
        [ fallbackImages[index] EXCEPT !.show =
            \/ JsGe(scrollPct, fallbackImages[index].start) /\ scrollPct > 0
            \/ JsLt(scrollPct, fallbackImages[index].start) /\ index = 1 ] ]

hideFallback ==
    [ index \in 1..Len(fallbackImages) |->
        [ fallbackImages[index] EXCEPT !.show = FALSE ] ]

\* updateStill with the frame rounded up
updateStillRoundsUp(pct) ==
    IF obj.singleFrames
    THEN [show |-> FALSE, opacity |-> 0, frame |-> Floor(pct) + 1, loading |-> TRUE]
    ELSE [still EXCEPT !.show = FALSE, !.opacity = 0]

\* updateStill
updateStill(pct) ==
    IF obj.singleFrames
    THEN [show |-> FALSE, opacity |-> 0, frame |-> Floor(pct), loading |-> TRUE]
    ELSE [still EXCEPT !.show = FALSE, !.opacity = 0]

\* Scene.progress handing on the value it was given after the scene
sceneEventUnclamped(e) ==
    IF e < 0 /\ sceneState # "BEFORE" THEN [progress |-> 0, state |-> "BEFORE"]
    ELSE IF 0 <= e /\ e < Unit THEN [progress |-> e, state |-> "DURING"]
    ELSE IF Unit <= e /\ sceneState # "AFTER" THEN [progress |-> e, state |-> "AFTER"]
    ELSE [progress |-> 0, state |-> ""]

\* Scene.progress(e): the progress event it triggers, state "" when it triggers none
sceneEvent(e) ==
    IF e < 0 /\ sceneState # "BEFORE" THEN [progress |-> 0, state |-> "BEFORE"]
    ELSE IF 0 <= e /\ e < Unit THEN [progress |-> e, state |-> "DURING"]
    ELSE IF Unit <= e /\ sceneState # "AFTER" THEN [progress |-> Unit, state |-> "AFTER"]
    ELSE [progress |-> 0, state |-> ""]

\* the events of a call with "enter" triggered only on the way into DURING
sceneTriggersEnterIntoDuring(old, new) ==
    (IF new # old /\ new = "DURING"
     THEN << "enter", IF old = "BEFORE" THEN "start" ELSE "end" >> ELSE << >>)
    \o << "progress" >>
    \o (IF new # old /\ new # "DURING"
        THEN << IF new = "BEFORE" THEN "start" ELSE "end", "leave" >> ELSE << >>)

\* Scene.progress, the state having gone from old to new: the events it
\* triggers, in order; "enter" and "start" or "end" when the old state was not
\* DURING, "progress", then "start" or "end" and "leave" when the new one is not
sceneTriggers(old, new) ==
    (IF new # old /\ old # "DURING"
     THEN << "enter", IF old = "BEFORE" THEN "start" ELSE "end" >> ELSE << >>)
    \o << "progress" >>
    \o (IF new # old /\ new # "DURING"
        THEN << IF new = "BEFORE" THEN "start" ELSE "end", "leave" >> ELSE << >>)

\* find without the factor 1.1
RECURSIVE findNoMargin(_, _, _)
findNoMargin(sizes, i, winWidth) ==
    IF i > Len(sizes) THEN 0
    ELSE IF sizes[i] > winWidth THEN sizes[i]
    ELSE findNoMargin(sizes, i + 1, winWidth)

\* setSrc: videoSizes[aspect].find (s => s * 1.1 > winWidth), 0 for undefined
RECURSIVE find(_, _, _)
find(sizes, i, winWidth) ==
    IF i > Len(sizes) THEN 0
    ELSE IF sizes[i] * 11 > winWidth * 10 THEN sizes[i]
    ELSE find(sizes, i + 1, winWidth)

\* setSrcSize falling back to the variant declared first
setSrcSizeFirst(sizes, winWidth) ==
    LET found == find(sizes, 1, winWidth)
    IN  IF found = 0 THEN sizes[1] ELSE found

\* setSrc: the size chosen among the variants of the aspect
setSrcSize(sizes, winWidth) ==
    LET found == find(sizes, 1, winWidth)
    IN  IF found = 0 THEN sizes[Len(sizes)] ELSE found

videoSizes(o, aspect) == IF aspect = "desktop" THEN o.desktop ELSE o.mobile

\* heightdesktop / heightmobile in tenths, 1.0 when the binding has none
heightMult(o, aspect) ==
    IF o.id = "scrolling_video_top" THEN (IF aspect = "desktop" THEN 5 ELSE 4)
    ELSE IF o.id = "scrolling_video_defects"
         THEN (IF aspect = "desktop" THEN 6 ELSE 5)
         ELSE 10

\* setupPage: the height given to the scroll container, in pixels
clientHeight(o, aspect) == (o.frameRate * o.frameLength * heightMult(o, aspect)) \div 10

\* setupPage: style.top of the annotation of every slide
setupPage(o, aspect) ==
    LET height == clientHeight(o, aspect)
    IN  [ index \in 1..Len(o.percent) |->
            LET parsePct == parseFloat(o.percent[index])
                valPct   == IF parsePct = NaN THEN 0 ELSE parsePct
            IN  IF o.percent[index].kind # "undefined" THEN valPct * height
                ELSE 0 ]

\* ------------------------------------------------ the environment classifier
\* A user-agent string is modelled by the words of the patterns that occur in
\* it, in the case they occur in, and by the text the version pattern of its
\* operating system extracts from it ("" when that pattern finds nothing).
\* pattern.test (ua) and ua.match (pattern) succeed when one of the words
\* the pattern accepts is among them.
Matches(ua, words) == ua.words \cap words # {}

Agent ==
    [ iPhone  |-> [words |-> {"iPhone"}, version |-> "10.3.1"],
      android |-> [words |-> {"Linux", "Android"}, version |-> "Pie"],
      mac     |-> [words |-> {"Macintosh"}, version |-> "10.14.4"],
      kindle  |-> [words |-> {"Kindle"}, version |-> ""],
      console |-> [words |-> {"PlayStation"}, version |-> ""],
      empty   |-> [words |-> {}, version |-> ""] ]

UserAgents == { Agent[k] : k \in DOMAIN Agent }

\* what a destructured name holds when the value destructured has no such key
Undefined == "undefined"

\* commonOperatingSystems: [name, pattern], each pattern ignoring case
commonOperatingSystems ==
    << [string |-> "iOS", pattern |-> {"iPhone", "iPod", "iPad"}],
       [string |-> "Android", pattern |-> {"Android"}],
       [string |-> "BlackBerry OS", pattern |-> {"BlackBerry", "BB10"}],
       [string |-> "Windows Mobile", pattern |-> {"IEMobile"}],
       [string |-> "Fire OS", pattern |-> {"Kindle Fire", "Silk"}],
       [string |-> "Amazon OS", pattern |-> {"Kindle", "Kindle Fire"}],
       [string |-> "Windows 3.11", pattern |-> {"Win16"}],
       [string |-> "Windows 95", pattern |-> {"Windows 95", "Win95", "Windows_95"}],
       [string |-> "Windows 98", pattern |-> {"Windows 98", "Win98"}],
       [string |-> "Windows 2000", pattern |-> {"Windows NT 5.0", "Windows 2000"}],
       [string |-> "Windows XP", pattern |-> {"Windows NT 5.1", "Windows XP"}],
       [string |-> "Windows Server 2003", pattern |-> {"Windows NT 5.2"}],
       [string |-> "Windows Vista", pattern |-> {"Windows NT 6.0"}],
       [string |-> "Windows 7", pattern |-> {"Windows NT 6.1"}],
       [string |-> "Windows 8", pattern |-> {"Windows NT 6.2"}],
       [string |-> "Windows 8.1", pattern |-> {"Windows NT 6.3"}],
       [string |-> "Windows 10", pattern |-> {"Windows NT 10.0"}],
       [string |-> "Windows ME", pattern |-> {"Windows ME"}],
       [string |-> "Open BSD", pattern |-> {"OpenBSD"}],
       [string |-> "Free BSD", pattern |-> {"FreeBSD"}],
       [string |-> "Sun OS", pattern |-> {"SunOS"}],
       [string |-> "Chrome OS", pattern |-> {"CrOS"}],
       [string |-> "webOS", pattern |-> {"webOS"}],
       [string |-> "Linux", pattern |-> {"Linux", "X11"}],
       [string |-> "Mac OS", pattern |-> {"Mac_PowerPC", "Macintosh"}] >>

\* testUserAgent (list): the name of the first entry from i on whose pattern
\* matches; false, which destructures to undefined, when none does
RECURSIVE testUserAgent(_, _, _)
testUserAgent(list, i, ua) ==
    IF i > Len(list) THEN [matched |-> FALSE, string |-> Undefined]
    ELSE IF Matches(ua, list[i].pattern)
         THEN [matched |-> TRUE, string |-> list[i].string]
         ELSE testUserAgent(list, i + 1, ua)

\* slugify for the names that have a version test; any other name becomes a
\* key operatingSystemVersions does not have
slugify(string) ==
    CASE string = "iOS" -> "ios"
      [] string = "Android" -> "android"
      [] string = "Chrome OS" -> "chrome_os"
      [] string = "Mac OS" -> "mac_os"
      [] OTHER -> "no_version_test"

\* operatingSystemVersions[osSlug] (), "" when there is no such test
operatingSystemVersions(osSlug, ua) ==
    IF osSlug \in {"ios", "android", "chrome_os", "mac_os"} THEN ua.version ELSE ""

\* cache = {}: a key that is absent reads as falsy, like one that holds false
EmptyCache ==
    [ getOperatingSystem |-> [set |-> FALSE, name |-> "", version |-> ""],
      isMobile |-> FALSE, isDesktop |-> FALSE, isIpadOs |-> FALSE,
      isIos |-> FALSE, isIphone |-> FALSE, isAndroid |-> FALSE,
      isWebOS |-> FALSE, isBlackberry |-> FALSE, isKindle |-> FALSE,
      isKindleFire |-> FALSE, isWindowsMobile |-> FALSE, isMacOs |-> FALSE ]

\* what a call leaves behind and returns; threw when it ended in a TypeError
Ret(e, v) == [env |-> e, value |-> v, threw |-> FALSE]

Throw(e) == [env |-> e, value |-> FALSE, threw |-> TRUE]

\* getOperatingSystem without the default name
getOperatingSystemNoDefault(e) ==
    IF e.cache.getOperatingSystem.set
    THEN [env |-> e, name |-> e.cache.getOperatingSystem.name,
          version |-> e.cache.getOperatingSystem.version, threw |-> FALSE]
    ELSE LET name == testUserAgent(commonOperatingSystems, 1, e.userAgent).string
         IN  IF name = Undefined
             THEN [env |-> e, name |-> "", version |-> "", threw |-> TRUE]
             ELSE LET version == operatingSystemVersions(slugify(name), e.userAgent)
                  IN  [env |-> [e EXCEPT !.cache.getOperatingSystem =
                                   [set |-> TRUE, name |-> name, version |-> version]],
                       name |-> name, version |-> version, threw |-> FALSE]

\* getOperatingSystem: name || 'unknown' replaces the undefined name, and
\* string.toLowerCase () of slugify has a string to work on
getOperatingSystem(e) ==
    IF e.cache.getOperatingSystem.set
    THEN [env |-> e, name |-> e.cache.getOperatingSystem.name,
          version |-> e.cache.getOperatingSystem.version, threw |-> FALSE]
    ELSE LET found == testUserAgent(commonOperatingSystems, 1, e.userAgent).string
             name  == IF found = Undefined THEN "unknown" ELSE found
             version == operatingSystemVersions(slugify(name), e.userAgent)
         IN  [env |-> [e EXCEPT !.cache.getOperatingSystem =
                          [set |-> TRUE, name |-> name, version |-> version]],
              name |-> name, version |-> version, threw |-> FALSE]

\* the classifiers that test the user agent: if (!cache.x) cache.x = pattern.test (userAgent)
uaPattern ==
    [ isIos |-> {"iPhone", "iPod", "iPad"}, isIphone |-> {"iPhone"},
      isAndroid |-> {"Android"}, isWebOS |-> {"webOS"},
      isBlackberry |-> {"Blackberry", "BB10"}, isWindowsMobile |-> {"IEMobile"} ]

byPattern(name, e) ==
    IF e.cache[name] THEN Ret(e, TRUE)
    ELSE LET v == Matches(e.userAgent, uaPattern[name])
         IN  Ret([e EXCEPT !.cache[name] = v], v)

\* the classifiers that look for a word in the operating system's name:
\* os.indexOf (word) > -1
osNames == [ isKindle |-> {"Amazon OS"}, isKindleFire |-> {"Fire OS"},
             isMacOs |-> {"Mac OS"} ]

byOsName(name, e) ==
    IF e.cache[name] THEN Ret(e, TRUE)
    ELSE LET indexOf(os) ==
                 IF os.threw THEN Throw(os.env)
                 ELSE LET v == os.name \in osNames[name]
                      IN  Ret([os.env EXCEPT !.cache[name] = v], v)
         IN  indexOf(getOperatingSystem(e))

isIpadOs(e) ==
    IF e.cache.isIpadOs THEN Ret(e, TRUE)
    ELSE LET withTouch(mac) ==
                 IF mac.threw THEN mac
                 ELSE LET v == mac.value /\ e.maxTouchPoints = 5
                      IN  Ret([mac.env EXCEPT !.cache.isIpadOs = v], v)
         IN  withTouch(byOsName("isMacOs", e))

mobileTest(name, e) ==
    IF name \in DOMAIN uaPattern THEN byPattern(name, e)
    ELSE IF name = "isIpadOs" THEN isIpadOs(e)
    ELSE byOsName(name, e)

\* a || b || ...: the operands from i on, up to the first that is true
RECURSIVE anyOf(_, _, _)
anyOf(names, i, e) ==
    IF i > Len(names) THEN Ret(e, FALSE)
    ELSE LET orNext(r) == IF r.threw \/ r.value THEN r ELSE anyOf(names, i + 1, r.env)
         IN  orNext(mobileTest(names[i], e))

\* isMobile: the operands in the order || evaluates them
isMobile(e) ==
    IF e.cache.isMobile THEN Ret(e, TRUE)
    ELSE LET kept(r) == IF r.threw THEN r
                         ELSE Ret([r.env EXCEPT !.cache.isMobile = r.value], r.value)
         IN  kept(anyOf(<< "isAndroid", "isIos", "isIpadOs", "isKindleFire",
                           "isKindle", "isBlackberry", "isWindowsMobile",
                           "isWebOS" >>, 1, e))

isDesktop(e) ==
    IF e.cache.isDesktop THEN Ret(e, TRUE)
    ELSE LET kept(r) == IF r.threw THEN r
                         ELSE Ret([r.env EXCEPT !.cache.isDesktop = ~r.value], ~r.value)
         IN  kept(isMobile(e))

\* breakpoints, in the order of Object.keys
breakpoints ==
    << [name |-> "xxsmall", width |-> 320], [name |-> "xsmall", width |-> 480],
       [name |-> "small", width |-> 600], [name |-> "medium", width |-> 740],
       [name |-> "large", width |-> 1024], [name |-> "xlarge", width |-> 1150],
       [name |-> "xxlarge", width |-> 1440] >>

\* setViewport: html.clientWidth never exceeds window.innerWidth, nor the
\* height; aspectRatio is the quotient of the two, kept as the pair
setViewport(e) ==
    [ e EXCEPT !.cachedViewport =
        [set |-> TRUE, width |-> e.innerWidth, height |-> e.innerHeight] ]

\* getViewport measuring the window at every call
getViewportLive(e) == setViewport(e)

\* getViewport: the environment after the call, whose cachedViewport it returns
getViewport(e) == IF ~e.cachedViewport.set THEN setViewport(e) ELSE e

\* the classifiers of the viewport, none of which keeps its result
viewportTests == { "isLandscape", "isPortrait", "isWideScreen",
                   "isSmallScreen", "isLargeScreen" }

byViewport(name, e) ==
    LET after == getViewport(e)
        vp    == after.cachedViewport
    IN  Ret(after,
            CASE name = "isLandscape" -> vp.width > vp.height
              [] name = "isPortrait" -> ~(vp.width > vp.height)
              [] name = "isWideScreen" -> vp.width * 1029 > 1440 * vp.height
              [] name = "isSmallScreen" -> vp.width <= 740
              [] name = "isLargeScreen" -> vp.width >= 1150)

\* isApp, isHighDensity and isRetina read the page and the screen at every call;
\* devicePixelRatio is in tenths and the media queries agree with it
byPage(name, e) ==
    Ret(e,
        CASE name = "isApp" ->
                \/ e.appUrl
                \/ Matches(e.userAgent, {"nyt-ios", "nyt-android"})
                \/ (Matches(e.userAgent, {"Android"}) /\ e.hybrid)
          [] name = "isHighDensity" -> e.devicePixelRatio >= 13
          [] name = "isRetina" ->
                /\ e.devicePixelRatio >= 20
                /\ Matches(e.userAgent, {"iPad", "iPhone", "iPod"}))

\* the keys of getState, in the order it evaluates them
stateTests ==
    << "isApp", "isIos", "isAndroid", "isIphone", "isMobile", "isDesktop",
       "isLandscape", "isPortrait", "isWideScreen", "isSmallScreen",
       "isLargeScreen", "isHighDensity", "isRetina" >>

\* one call of the classifier called name
classifier(name, e) ==
    IF name \in DOMAIN uaPattern THEN byPattern(name, e)
    ELSE IF name \in DOMAIN osNames THEN byOsName(name, e)
    ELSE IF name = "isIpadOs" THEN isIpadOs(e)
    ELSE IF name = "isMobile" THEN isMobile(e)
    ELSE IF name = "isDesktop" THEN isDesktop(e)
    ELSE IF name \in viewportTests THEN byViewport(name, e)
    ELSE byPage(name, e)

\* getState: the tests from i on are run in turn; value is the set of the keys
\* that hold true, those in results among them
RECURSIVE getState(_, _, _)
getState(i, e, results) ==
    IF i > Len(stateTests) THEN [env |-> e, value |-> results, threw |-> FALSE]
    ELSE LET next(r) ==
                 IF r.threw THEN [env |-> r.env, value |-> results, threw |-> TRUE]
                 ELSE getState(i + 1, r.env,
                               IF r.value THEN results \cup { stateTests[i] } ELSE results)
         IN  next(classifier(stateTests[i], e))

\* fnName.toLowerCase ()
toLowerCase ==
    [ isApp |-> "isapp", isIos |-> "isios", isAndroid |-> "isandroid",
      isIphone |-> "isiphone", isMobile |-> "ismobile", isDesktop |-> "isdesktop",
      isLandscape |-> "islandscape", isPortrait |-> "isportrait",
      isWideScreen |-> "iswidescreen", isSmallScreen |-> "issmallscreen",
      isLargeScreen |-> "islargescreen", isHighDensity |-> "ishighdensity",
      isRetina |-> "isretina" ]

\* a class name prefix-name is the pair of its two parts
pageClass(fnName) == << "g-page", toLowerCase[fnName] >>

viewportClass(name) == << "g-viewport", name >>

\* getBreakpoints: the names of the active breakpoints for viewport width vw
getBreakpoints(vw) ==
    { breakpoints[i].name : i \in { j \in 1..Len(breakpoints) : vw >= breakpoints[j].width } }

\* prepEnvironment that adds the classes of the true tests and removes none
prepEnvironmentAddsOnly(e) ==
    LET measured == setViewport(e)
        active   == getBreakpoints(measured.cachedViewport.width)
        byWidth  == e.classList \cup { viewportClass(n) : n \in active }
        toggled(state) ==
            IF state.threw THEN [state.env EXCEPT !.classList = byWidth]
            ELSE [ state.env EXCEPT !.classList =
                     byWidth \cup { pageClass(n) : n \in state.value } ]
    IN  toggled(getState(1, measured, {}))

\* prepEnvironment: the viewport is measured, then a class is added for every
\* active breakpoint and every true test and removed for every other one
prepEnvironment(e) ==
    LET measured == setViewport(e)
        active   == getBreakpoints(measured.cachedViewport.width)
        byWidth  == (e.classList \ { viewportClass(breakpoints[i].name) : i \in 1..Len(breakpoints) })
                        \cup { viewportClass(n) : n \in active }
        toggled(state) ==
            IF state.threw THEN [state.env EXCEPT !.classList = byWidth]
            ELSE [ state.env EXCEPT !.classList =
                     (byWidth \ { pageClass(stateTests[i]) : i \in 1..Len(stateTests) })
                        \cup { pageClass(n) : n \in state.value } ]
    IN  toggled(getState(1, measured, {}))

\* debounce (prepEnvironment, 250)
DebounceWait == 250

NoTimeout == [pending |-> FALSE, at |-> 0 - 1, args |-> 0]

\* the debounced function keeping the timer of the first call of a burst
debouncedKeepsTimer(e, t, args) ==
    IF e.timeout.pending THEN e
    ELSE [e EXCEPT !.timeout = [pending |-> TRUE, at |-> t + DebounceWait, args |-> args]]

\* the function debounce returns, called at time t with arguments args:
\* immediate is undefined, the pending timer is cleared and a new one set
\* whose later holds the arguments of this call
debounced(e, t, args) ==
    [e EXCEPT !.timeout = [pending |-> TRUE, at |-> t + DebounceWait, args |-> args]]

\* later: timeout = null and func.apply (context, args)
later(e) == prepEnvironment([e EXCEPT !.timeout = NoTimeout])

\* the module before any of its statements has run, in a window w wide and
\* h high of a browser with user agent ua
Unloaded(ua, touch, w, h) ==
    [ userAgent |-> ua, maxTouchPoints |-> touch, devicePixelRatio |-> 20,
      appUrl |-> FALSE, hybrid |-> FALSE,
      innerWidth |-> w, innerHeight |-> h,
      cache |-> EmptyCache, cachedViewport |-> [set |-> FALSE, width |-> 0, height |-> 0],
      classList |-> {}, timeout |-> NoTimeout ]

\* the module loaded: the class of getEnvironment () is on the root and
\* prepEnvironment has run once
Loaded(ua, touch, w, h) ==
    prepEnvironment([ Unloaded(ua, touch, w, h) EXCEPT
                        !.classList = { << "g-page", "production" >> } ])

\* the history kept of the classifier module
NoLog ==
    [ op |-> "", name |-> "", value |-> FALSE, threw |-> FALSE,
      os |-> [name |-> "", version |-> ""],
      firstTrue |-> {}, firstOs |-> [called |-> FALSE, name |-> "", version |-> ""],
      calls |-> 0, lastCallAt |-> 0 - 1, runs |-> 0, ranAt |-> 0 - 1, ranArgs |-> 0 ]

\* the history after the load: prepEnvironment made the first call of every
\* test of getState, and of getOperatingSystem if isMobile came to need it
LogAtLoad(ua, touch, w, h) ==
    LET logged(first) ==
            LET os == first.env.cache.getOperatingSystem
            IN  [ NoLog EXCEPT !.op = "load", !.firstTrue = first.value,
                               !.threw = first.threw,
                               !.firstOs = [called |-> os.set, name |-> os.name,
                                            version |-> os.version] ]
    IN  logged(getState(1, setViewport(Unloaded(ua, touch, w, h)), {}))

\* ------------------------------------------------------------------ state
NoStill == [show |-> FALSE, opacity |-> 1, frame |-> 0 - 1, loading |-> FALSE]

Other ==
    [op |-> "", path |-> "", src |-> 0, pct |-> 0, next |-> 0, frame0 |-> 0,
     prev |-> 0, buffered |-> << >>]

\* loadFallbackImages requesting the following image in the same call
loadFallbackImagesEager(imgs, imagesArr, index) ==
    IF index > Len(imagesArr) THEN imgs
    ELSE IF index = Len(imagesArr)
         THEN Append(imgs, [start |-> imagesArr[index], show |-> FALSE,
                            status |-> "requested"])
         ELSE imgs \o << [start |-> imagesArr[index], show |-> FALSE,
                          status |-> "requested"],
                         [start |-> imagesArr[index + 1], show |-> FALSE,
                          status |-> "requested"] >>

\* loadFallbackImages (index, imagesArr): the list imgs after the request of
\* image index (0-based in the code, 1-based here), unchanged past the last slide
loadFallbackImages(imgs, imagesArr, index) ==
    IF index > Len(imagesArr) THEN imgs
    ELSE Append(imgs, [start |-> imagesArr[index], show |-> FALSE,
                       status |-> "requested"])

DefaultPage == [winWidth |-> 1000, aspect |-> "desktop"]

\* the state create (o) leaves behind on page pg; sz is obj.size
Created(o, pg, sz) ==
    /\ obj = o
    /\ scrollPct = 0
    /\ videoLastFrame = 0
    /\ videoShouldUpdate = FALSE
    /\ readyState = FALSE
    /\ playThroughTimer = TRUE
    /\ fallbackImages = loadFallbackImages(<< >>, o.slides, 1)
    /\ loadTimer = 0
    /\ timers = << >>
    /\ video = [visibility |-> "unset", currentTime |-> 0]
    /\ seeked = FALSE
    /\ still = NoStill
    /\ sceneState = "BEFORE"
    /\ page = pg
    /\ size = sz
    /\ jumps = 0
    /\ last = Other
    /\ slideTop = setupPage(o, pg.aspect)

\* the window height init finds (module: winHeight); with DefaultPage's width
\* the ratio is below 1 and aspect is "desktop"
LoadHeight == 800

\* the classifier module as its load leaves it in a desktop browser whose
\* window is DefaultPage's; the specifications of the player, the loader and
\* the controller leave it alone
EnvIdle ==
    /\ env = Loaded(Agent.mac, 0, DefaultPage.winWidth, LoadHeight)
    /\ envLog = LogAtLoad(Agent.mac, 0, DefaultPage.winWidth, LoadHeight)

NoFrame == [events |-> 0, requested |-> 0, callbacks |-> 0, runs |-> 0, ran |-> FALSE]

\* the loader of init and the scene's controller at rest: the specifications
\* of one binding's player leave them alone
\* no call of Scene.progress has been made
NoTriggers ==
    [ queue |-> << >>, payload |-> [progress |-> 0, state |-> ""],
      from |-> "", event |-> "", open |-> 0, flip |-> FALSE ]

HostIdle ==
    /\ videos = << >>
    /\ vidsLoaded = 0
    /\ now = 0
    /\ winHeight = LoadHeight
    /\ throttled = FALSE
    /\ updateScenes = "false"
    /\ rafRequests = 0
    /\ scrollTop = 0
    /\ frameLog = NoFrame
    /\ sceneLog = NoTriggers
    /\ EnvIdle

\* setSrc has run to its end: obj.size is chosen
Init ==
    /\ \E o \in Bindings :
          Created(o, DefaultPage,
                  setSrcSize(videoSizes(o, DefaultPage.aspect), DefaultPage.winWidth))
    /\ HostIdle

\* ---------------------------------------------------------------- actions
\* adjustScrollPct: clearTimeout (custTimer) clears nothing, custTimer being
\* null for ever; one more 10 ms timer carrying jumpToPct
adjustScrollPct(sp) == Append(timers, [pct |-> jumpToPct(sp), src |-> sp])

\* onProgress without the test scrollPct !== e.progress
onProgressUnguarded(e) ==
    LET shouldUpdate == IF e.state \in {"BEFORE", "AFTER"} THEN FALSE
                        ELSE videoShouldUpdate
    IN  /\ videoShouldUpdate' = shouldUpdate
        /\ scrollPct' = e.progress
        /\ IF ~shouldUpdate
           THEN /\ Len(timers) < MaxTimers
                /\ timers' = adjustScrollPct(e.progress)
           ELSE UNCHANGED timers
        /\ last' = [Other EXCEPT !.op = "progress", !.src = e.progress,
                                  !.path = IF scrollPct = e.progress THEN "same"
                                           ELSE "changed"]

\* the "progress" handler of startScrollAnimation for event e
onProgress(e) ==
    LET shouldUpdate == IF e.state \in {"BEFORE", "AFTER"} THEN FALSE
                        ELSE videoShouldUpdate
    IN  /\ videoShouldUpdate' = shouldUpdate
        /\ IF scrollPct # e.progress
           THEN /\ scrollPct' = e.progress
                /\ IF ~shouldUpdate
                   THEN /\ Len(timers) < MaxTimers
                        /\ timers' = adjustScrollPct(e.progress)
                   ELSE UNCHANGED timers
           ELSE UNCHANGED << scrollPct, timers >>
        /\ last' = [Other EXCEPT !.op = "progress", !.src = e.progress,
                                  !.path = IF scrollPct = e.progress THEN "same"
                                           ELSE "changed"]

\* Scene.update: Scene.progress (raw) triggers at most one progress event
SceneUpdate(raw) ==
    /\ sceneEvent(raw).state # ""
    /\ sceneState' = sceneEvent(raw).state
    /\ onProgress(sceneEvent(raw))
    /\ UNCHANGED << obj, videoLastFrame, readyState, playThroughTimer,
                    fallbackImages, loadTimer, video, seeked, still,
                    page, size, jumps >>
    /\ UNCHANGED hostVars

\* the oldest 10 ms timer fires: jumpToTime (pct)
jumpToTime(b, pct, src) ==
    LET videoNextFrame == obj.frameLength * pct
        videoCurrFrame == videoLastFrame
                            + Div(videoNextFrame - videoLastFrame, stepDivisor)
        frameToUse     == Clamp(videoCurrFrame, 0, obj.frameLength * Unit)
        isBuffered     == checkBuffered(b, frameToUse)
        paused         == checkForPauses(frameToUse, pct)
        timeFromKeyframe == getTimeFromKeyframe(paused)
        note == [op |-> "jumpToTime", path |-> "", src |-> src, pct |-> pct,
                 next |-> videoNextFrame, frame0 |-> frameToUse,
                 prev |-> videoLastFrame, buffered |-> b]
    IN  IF isBuffered
        THEN /\ fallbackImages' = hideFallback
             /\ video' = [visibility |-> "visible",
                          currentTime |-> Clamp(timeFromKeyframe, 0,
                                                obj.frameLength * Unit)]
             /\ seeked' = TRUE
             /\ IF Abs(videoNextFrame - paused) < (obj.keyFrameLength + 1) * Unit
                THEN /\ videoShouldUpdate' = FALSE
                     /\ still' = updateStill(paused)
                     /\ last' = [note EXCEPT !.path = "still"]
                ELSE /\ videoShouldUpdate' = TRUE
                     /\ still' = [still EXCEPT !.show = FALSE, !.opacity = 0]
                     /\ last' = [note EXCEPT !.path = "seek"]
             /\ videoLastFrame' = paused
        ELSE /\ fallbackImages' = showFallback
             /\ video' = [video EXCEPT !.visibility = "hidden"]
             /\ videoLastFrame' = frameToUse
             /\ last' = [note EXCEPT !.path = "fallback"]
             /\ UNCHANGED << seeked, videoShouldUpdate, still >>

\* b is what video.buffered holds when the timer fires
FireTimer(b) ==
    /\ timers # << >>
    /\ jumps < MaxJumps
    /\ jumps' = jumps + 1
    /\ jumpToTime(b, Head(timers).pct, Head(timers).src)
    /\ timers' = Tail(timers)
    /\ UNCHANGED << obj, scrollPct, readyState, playThroughTimer, loadTimer,
                    sceneState, page, size >>
    /\ UNCHANGED hostVars

\* the video's "timeupdate" listener, after a write of currentTime
TimeUpdate ==
    /\ seeked
    /\ seeked' = FALSE
    /\ IF videoShouldUpdate
       THEN /\ Len(timers) < MaxTimers
            /\ timers' = adjustScrollPct(scrollPct)
       ELSE UNCHANGED timers
    /\ last' = Other
    /\ UNCHANGED << obj, scrollPct, videoLastFrame, videoShouldUpdate,
                    readyState, playThroughTimer, fallbackImages, loadTimer,
                    video, still, sceneState, page, size, jumps >>
    /\ UNCHANGED hostVars

\* img.onload of the image requested last: g-show on the first image, and the
\* 100 ms timer for the next index
ImgOnload ==
    /\ fallbackImages # << >>
    /\ fallbackImages[Len(fallbackImages)].status = "requested"
    /\ fallbackImages' =
          [fallbackImages EXCEPT ![Len(fallbackImages)] =
              [@ EXCEPT !.status = "loaded",
                        !.show = IF Len(fallbackImages) = 1 THEN TRUE ELSE @]]
    /\ loadTimer' = Len(fallbackImages) + 1
    /\ last' = Other
    /\ UNCHANGED << obj, scrollPct, videoLastFrame, videoShouldUpdate,
                    readyState, playThroughTimer, timers, video, seeked, still,
                    sceneState, page, size, jumps >>
    /\ UNCHANGED hostVars

\* ImgError with the load handler installed for the error event too
ImgErrorLoadsNext ==
    /\ fallbackImages # << >>
    /\ fallbackImages[Len(fallbackImages)].status = "requested"
    /\ fallbackImages' =
          [fallbackImages EXCEPT ![Len(fallbackImages)] = [@ EXCEPT !.status = "error"]]
    /\ loadTimer' = Len(fallbackImages) + 1
    /\ last' = Other
    /\ UNCHANGED << obj, scrollPct, videoLastFrame, videoShouldUpdate,
                    readyState, playThroughTimer, timers, video,
                    seeked, still, sceneState, page, size, jumps >>
    /\ UNCHANGED hostVars

\* the request of the image requested last fails: no handler is installed
ImgError ==
    /\ fallbackImages # << >>
    /\ fallbackImages[Len(fallbackImages)].status = "requested"
    /\ fallbackImages' =
          [fallbackImages EXCEPT ![Len(fallbackImages)] = [@ EXCEPT !.status = "error"]]
    /\ last' = Other
    /\ UNCHANGED << obj, scrollPct, videoLastFrame, videoShouldUpdate,
                    readyState, playThroughTimer, loadTimer, timers, video,
                    seeked, still, sceneState, page, size, jumps >>
    /\ UNCHANGED hostVars

\* the 100 ms timer set by img.onload fires: loadFallbackImages (++index, ...)
LoadNextImage ==
    /\ loadTimer # 0
    /\ fallbackImages' = loadFallbackImages(fallbackImages, obj.slides, loadTimer)
    /\ loadTimer' = 0
    /\ last' = Other
    /\ UNCHANGED << obj, scrollPct, videoLastFrame, videoShouldUpdate,
                    readyState, playThroughTimer, timers, video, seeked, still,
                    sceneState, page, size, jumps >>
    /\ UNCHANGED hostVars

\* the poll with clearInterval left out
PlayThroughTickKeepsPolling(enough) ==
    /\ playThroughTimer
    /\ IF enough
       THEN /\ video' = [video EXCEPT !.currentTime = 0]
            /\ seeked' = TRUE
            /\ readyState' = TRUE
       ELSE UNCHANGED << video, seeked, readyState >>
    /\ last' = [Other EXCEPT !.op = "poll",
                             !.path = IF enough THEN "ready" ELSE "wait"]
    /\ UNCHANGED << obj, scrollPct, videoLastFrame, videoShouldUpdate,
                    playThroughTimer, fallbackImages, loadTimer, timers, still,
                    sceneState, page, size, jumps >>
    /\ UNCHANGED hostVars

\* one tick of the playThroughTimer interval; enough is video.readyState > 3
PlayThroughTick(enough) ==
    /\ playThroughTimer
    /\ IF enough
       THEN /\ playThroughTimer' = FALSE
            /\ video' = [video EXCEPT !.currentTime = 0]
            /\ seeked' = TRUE
            /\ readyState' = TRUE
       ELSE UNCHANGED << playThroughTimer, video, seeked, readyState >>
    /\ last' = [Other EXCEPT !.op = "poll",
                             !.path = IF enough THEN "ready" ELSE "wait"]
    /\ UNCHANGED << obj, scrollPct, videoLastFrame, videoShouldUpdate,
                    fallbackImages, loadTimer, timers, still,
                    sceneState, page, size, jumps >>
    /\ UNCHANGED hostVars

\* obj.stillImage.onload, the load started by updateStill completing
StillOnload ==
    /\ still.loading
    /\ still' = [still EXCEPT !.loading = FALSE, !.show = TRUE, !.opacity = 1]
    /\ last' = Other
    /\ UNCHANGED << obj, scrollPct, videoLastFrame, videoShouldUpdate,
                    readyState, playThroughTimer, fallbackImages, loadTimer,
                    timers, video, seeked, sceneState, page, size, jumps >>
    /\ UNCHANGED hostVars

Next ==
    \/ \E raw \in RawProgress : SceneUpdate(raw)
    \/ \E b \in BufferedChoices : FireTimer(b)
    \/ TimeUpdate
    \/ ImgOnload
    \/ ImgError
    \/ LoadNextImage
    \/ \E enough \in BOOLEAN : PlayThroughTick(enough)
    \/ StillOnload

Spec == Init /\ [][Next]_vars

\* the progress path alone, bound to the first scrolling video of DOC.body:
\* scroll events, the ready poll, the 10 ms timers and the timeupdate events,
\* while no fallback image comes back
InitDoc ==
    /\ Created(DocTop, DefaultPage,
               setSrcSize(videoSizes(DocTop, DefaultPage.aspect),
                          DefaultPage.winWidth))
    /\ HostIdle

NextDoc ==
    \/ \E raw \in RawProgress : SceneUpdate(raw)
    \/ \E b \in BufferedChoices : FireTimer(b)
    \/ TimeUpdate
    \/ \E enough \in BOOLEAN : PlayThroughTick(enough)
    \/ StillOnload

SpecDoc == InitDoc /\ [][NextDoc]_vars

\* setSrc on its own: the size variants and the page are the inputs
Widths == { 600 + 100 * k : k \in 0..MaxWidthStep }

SizeLists ==
    { << a >> : a \in {640, 800, 960} }
        \cup { << a, b >> : a \in {640, 800, 960}, b \in {640, 800, 960} }

InitSetSrc ==
    /\ \E d \in SizeLists, w \in Widths, a \in {"desktop", "mobile"} :
          Created([ShortClip EXCEPT !.desktop = IF a = "desktop" THEN d ELSE @,
                                    !.mobile  = IF a = "mobile" THEN d ELSE @],
                  [winWidth |-> w, aspect |-> a], 0)
    /\ HostIdle

\* setSrc, from the split of the size lists to self.size = size
SetSrc ==
    /\ size = 0
    /\ size' = setSrcSize(videoSizes(obj, page.aspect), page.winWidth)
    /\ UNCHANGED << obj, scrollPct, videoLastFrame, videoShouldUpdate,
                    readyState, playThroughTimer, fallbackImages, loadTimer,
                    timers, video, seeked, still, sceneState, page, jumps, last >>
    /\ UNCHANGED hostVars

NextSetSrc == SetSrc

SpecSetSrc == InitSetSrc /\ [][NextSetSrc]_vars

\* ------------------------------------------------- init and the page's loader
\* the scrolling videos of DOC.body in document order; a page with more than
\* two has further videos of the short clip's shape
PageVideo(k) == IF k = 1 THEN DocTop ELSE IF k = 2 THEN DocDefects ELSE ShortClip

\* the bindings whose rendition_asset is not the empty string
HasRendition == { "scrolling_video_top", "short" }

\* the grace period of setSrc and the step of the clock, in milliseconds
Grace == 7500

TickMs == 2500

Heights == { 600, 800, 1000 }

NoUrl == [base |-> "", size |-> 0]

Unbound ==
    [ bound |-> FALSE, size |-> 0, url |-> NoUrl, loadNextVideo |-> 0 - 1,
      listening |-> FALSE, called |-> 0, boundAt |-> 0 - 1, calledAt |-> 0 - 1,
      playing |-> FALSE, offset |-> 0, duration |-> 0 ]

\* setSrc of video k at time t: create (self) builds the scene from the window
\* height init found, the 7500 ms timer and the canplaythrough listener are
\* installed, the size and the url are chosen and play () is called
setSrc(vs, k, t) ==
    LET o    == PageVideo(k)
        sz   == setSrcSize(videoSizes(o, page.aspect), page.winWidth)
        url  == IF o.id \in HasRendition
                THEN [base |-> "rendition_asset", size |-> sz]
                ELSE NoUrl
    IN  [ vs EXCEPT ![k] =
            [ bound |-> TRUE, size |-> sz, url |-> url,
              loadNextVideo |-> t + Grace, listening |-> TRUE, called |-> 0,
              boundAt |-> t, calledAt |-> 0 - 1, playing |-> TRUE,
              offset |-> 0 - (LoadHeight \div 2),
              duration |-> clientHeight(o, page.aspect) + LoadHeight ] ]

\* loadVideosAsync with setSrc called on every video at once
loadVideosAsyncEager(vs, n, t) ==
    [ videos |-> IF n < Len(vs)
                 THEN (IF n + 2 <= Len(vs) THEN setSrc(setSrc(vs, n + 1, t), n + 2, t)
                       ELSE setSrc(vs, n + 1, t))
                 ELSE vs,
      vidsLoaded |-> n + 1 ]

\* loadVideosAsync with vidsLoaded = n at time t
loadVideosAsync(vs, n, t) ==
    [ videos |-> IF n < Len(vs) THEN setSrc(vs, n + 1, t) ELSE vs,
      vidsLoaded |-> n + 1 ]

\* next without the call of removeEventListener
nextKeepsListener(k) ==
    LET called == [ videos EXCEPT ![k] =
                      [ @ EXCEPT !.loadNextVideo = 0 - 1, !.playing = FALSE,
                                 !.called = @ + 1, !.calledAt = now ] ]
        loaded == loadVideosAsync(called, vidsLoaded, now)
    IN  /\ videos' = loaded.videos
        /\ vidsLoaded' = loaded.vidsLoaded

\* next of video k: the timer is cleared, the video paused, the listener
\* removed, and loadCallback (loadVideosAsync) is called
next(k) ==
    LET called == [ videos EXCEPT ![k] =
                      [ @ EXCEPT !.loadNextVideo = 0 - 1, !.playing = FALSE,
                                 !.listening = FALSE, !.called = @ + 1,
                                 !.calledAt = now ] ]
        loaded == loadVideosAsync(called, vidsLoaded, now)
    IN  /\ videos' = loaded.videos
        /\ vidsLoaded' = loaded.vidsLoaded

\* the state init leaves behind on a page of n scrolling videos: the first
\* call of loadVideosAsync has run
InitPage ==
    /\ Created(DocTop, DefaultPage,
               setSrcSize(videoSizes(DocTop, DefaultPage.aspect),
                          DefaultPage.winWidth))
    /\ \E n \in 1..MaxVideos :
          LET loaded == loadVideosAsync([ k \in 1..n |-> Unbound ], 0, 0)
          IN  /\ videos = loaded.videos
              /\ vidsLoaded = loaded.vidsLoaded
    /\ now = 0
    /\ winHeight = LoadHeight
    /\ throttled = FALSE
    /\ updateScenes = "false"
    /\ rafRequests = 0
    /\ scrollTop = 0
    /\ frameLog = NoFrame
    /\ sceneLog = NoTriggers
    /\ EnvIdle

\* the canplaythrough event of video k, which a video without a source
\* never fires
CanPlayThrough(k) ==
    /\ videos[k].listening
    /\ videos[k].url # NoUrl
    /\ next(k)
    /\ UNCHANGED << now, winHeight, throttled >>
    /\ UNCHANGED << playerVars, ctrlVars, domVars, sceneLog >>

\* next without the call of loadCallback
TimeoutStalls(k) ==
    /\ videos[k].loadNextVideo = now
    /\ videos' = [ videos EXCEPT ![k] =
                     [ @ EXCEPT !.loadNextVideo = 0 - 1, !.playing = FALSE,
                                !.listening = FALSE ] ]
    /\ UNCHANGED << vidsLoaded, now, winHeight, throttled >>
    /\ UNCHANGED << playerVars, ctrlVars, domVars, sceneLog >>

\* the 7500 ms timer of video k fires
Timeout(k) ==
    /\ videos[k].loadNextVideo = now
    /\ next(k)
    /\ UNCHANGED << now, winHeight, throttled >>
    /\ UNCHANGED << playerVars, ctrlVars, domVars, sceneLog >>

Deadlines == { videos[k].loadNextVideo : k \in 1..Len(videos) } \ { 0 - 1 }

\* time passes, up to the next deadline of a 7500 ms timer; the 150 ms timer
\* of the resize listener is on a finer scale and fires on its own
Tick ==
    /\ Deadlines # {}
    /\ \A d \in Deadlines : now + TickMs <= d
    /\ now' = now + TickMs
    /\ UNCHANGED << videos, vidsLoaded, winHeight, throttled >>
    /\ UNCHANGED << playerVars, ctrlVars, domVars, sceneLog >>

\* the resize listener of create with the size choice dropped as well
onResizeClearsSize(k, v, h) ==
    [ v EXCEPT !.offset = 0 - (h \div 2),
               !.duration = clientHeight(PageVideo(k), page.aspect) + h,
               !.size = 0, !.url = NoUrl ]

\* the body of create's resize listener for video k, the window being h high
onResize(k, v, h) ==
    [ v EXCEPT !.offset = 0 - (h \div 2),
               !.duration = clientHeight(PageVideo(k), page.aspect) + h ]

\* the resize listeners of the bound videos, run in the order create
\* registered them, from listener k on; thr is the module's throttled
RECURSIVE resizeListeners(_, _, _, _)
resizeListeners(k, vs, thr, h) ==
    IF k > Len(vs) THEN [videos |-> vs, throttled |-> thr]
    ELSE IF vs[k].bound /\ ~thr
         THEN resizeListeners(k + 1, [vs EXCEPT ![k] = onResize(k, @, h)], TRUE, h)
         ELSE resizeListeners(k + 1, vs, thr, h)

\* one resize event, the window now h high
Resize(h) ==
    /\ h # winHeight
    /\ winHeight' = h
    /\ LET done == resizeListeners(1, videos, throttled, h)
       IN  /\ videos' = done.videos
           /\ throttled' = done.throttled
    /\ UNCHANGED << vidsLoaded, now >>
    /\ UNCHANGED << playerVars, ctrlVars, domVars, sceneLog >>

\* the 150 ms timer set by the resize listener that ran fires
ThrottleTimeout ==
    /\ throttled
    /\ throttled' = FALSE
    /\ UNCHANGED << videos, vidsLoaded, now, winHeight >>
    /\ UNCHANGED << playerVars, ctrlVars, domVars, sceneLog >>

NextPage ==
    \/ \E k \in 1..Len(videos) : CanPlayThrough(k)
    \/ \E k \in 1..Len(videos) : Timeout(k)
    \/ Tick
    \/ \E h \in Heights : Resize(h)
    \/ ThrottleTimeout

SpecPage == InitPage /\ [][NextPage]_vars

\* timers fire and time passes
SpecPageFair ==
    /\ SpecPage
    /\ WF_vars(Tick)
    /\ WF_vars(\E k \in 1..Len(videos) : Timeout(k))

\* ------------------------------------------- the scene's ScrollMagic controller
\* Controller b (onChange) with a callback requested at every event
onChangeUnguarded(c) == [c |-> "true", requested |-> 1]

\* Controller b (onChange): unless every scene is already due, every scene
\* becomes due and one animation-frame callback is requested
onChange(c) ==
    IF c # "true" THEN [c |-> "true", requested |-> 1]
    ELSE [c |-> c, requested |-> 0]

\* Controller.updateScene (scene, false), which Scene.update () calls on a
\* shift: unless every scene is due, the scene is put on the list and one
\* more callback is requested
updateScene(c) ==
    IF c # "true" THEN [c |-> "array", requested |-> 1]
    ELSE [c |-> c, requested |-> 0]

\* Controller y run by each of n requested callbacks in turn: the first one
\* that finds scenes due updates them and clears the list
RECURSIVE updateScenesInFrame(_, _, _)
updateScenesInFrame(n, c, runs) ==
    IF n = 0 THEN [c |-> c, runs |-> runs]
    ELSE IF c # "false" THEN updateScenesInFrame(n - 1, "false", runs + 1)
    ELSE updateScenesInFrame(n - 1, c, runs)

\* the tally of the frame being prepared
Tally == IF frameLog.ran THEN NoFrame ELSE frameLog

\* a scroll event: the container is at the position that maps to progress raw
ScrollEvent(raw) ==
    /\ Tally.events < MaxEvents
    /\ scrollTop' = raw
    /\ LET due == onChange(updateScenes)
       IN  /\ updateScenes' = due.c
           /\ rafRequests' = rafRequests + due.requested
           /\ frameLog' = [Tally EXCEPT !.events = @ + 1,
                                        !.requested = @ + due.requested]
    /\ last' = Other
    /\ UNCHANGED << obj, scrollPct, videoLastFrame, videoShouldUpdate,
                    readyState, playThroughTimer, fallbackImages, loadTimer,
                    timers, video, seeked, still, sceneState, page, size, jumps >>
    /\ UNCHANGED << pageVars, domVars, sceneLog >>

\* a resize event: the controller's listener runs first, then the shifts of
\* create's listener and of the scene's own, each calling Scene.update ()
ResizeEvent ==
    /\ Tally.events < MaxEvents
    /\ LET due     == onChange(updateScenes)
           shifted == updateScene(updateScene(due.c).c)
       IN  /\ updateScenes' = shifted.c
           /\ rafRequests' = rafRequests + due.requested
                               + updateScene(due.c).requested + shifted.requested
           /\ frameLog' = [Tally EXCEPT !.events = @ + 1,
                                        !.requested = @ + due.requested]
    /\ last' = Other
    /\ UNCHANGED << obj, scrollPct, videoLastFrame, videoShouldUpdate,
                    readyState, playThroughTimer, fallbackImages, loadTimer,
                    timers, video, seeked, still, sceneState, page, size, jumps >>
    /\ UNCHANGED << pageVars, scrollTop, domVars, sceneLog >>

\* a shift outside a container event (the 100 ms refresh finding the trigger
\* element moved): Scene.update ()
SceneShift ==
    /\ rafRequests < MaxRaf
    /\ LET due == updateScene(updateScenes)
       IN  /\ updateScenes' = due.c
           /\ rafRequests' = rafRequests + due.requested
    /\ frameLog' = Tally
    /\ last' = Other
    /\ UNCHANGED << obj, scrollPct, videoLastFrame, videoShouldUpdate,
                    readyState, playThroughTimer, fallbackImages, loadTimer,
                    timers, video, seeked, still, sceneState, page, size, jumps >>
    /\ UNCHANGED << pageVars, scrollTop, domVars, sceneLog >>

\* an animation frame: the callbacks requested run; a scene update computes
\* the progress from the scroll position and hands it to Scene.progress
AnimationFrame ==
    /\ rafRequests > 0
    /\ LET done == updateScenesInFrame(rafRequests, updateScenes, 0)
       IN  /\ updateScenes' = done.c
           /\ rafRequests' = 0
           /\ frameLog' = [Tally EXCEPT !.callbacks = rafRequests,
                                        !.runs = done.runs, !.ran = TRUE]
           /\ IF done.runs > 0 /\ sceneEvent(scrollTop).state # ""
              THEN /\ sceneState' = sceneEvent(scrollTop).state
                   /\ onProgress(sceneEvent(scrollTop))
                   /\ UNCHANGED << obj, videoLastFrame, readyState,
                                   playThroughTimer, fallbackImages, loadTimer,
                                   video, seeked, still, page, size, jumps >>
              ELSE /\ last' = Other
                   /\ UNCHANGED << obj, scrollPct, videoLastFrame,
                                   videoShouldUpdate, readyState, playThroughTimer,
                                   fallbackImages, loadTimer, timers, video, seeked,
                                   still, sceneState, page, size, jumps >>
    /\ UNCHANGED << pageVars, scrollTop, domVars, sceneLog >>

\* the state create leaves behind with the controller's: addTo and duration
\* have each called Scene.update (), the page is scrolled to above the scene
InitFrame ==
    /\ Created(DocTop, DefaultPage,
               setSrcSize(videoSizes(DocTop, DefaultPage.aspect),
                          DefaultPage.winWidth))
    /\ videos = << >>
    /\ vidsLoaded = 0
    /\ now = 0
    /\ winHeight = LoadHeight
    /\ throttled = FALSE
    /\ updateScenes = updateScene(updateScene("false").c).c
    /\ rafRequests = updateScene("false").requested
                       + updateScene(updateScene("false").c).requested
    /\ scrollTop = 0 - 100
    /\ frameLog = NoFrame
    /\ sceneLog = NoTriggers
    /\ EnvIdle

NextFrame ==
    \/ \E raw \in RawProgress : ScrollEvent(raw)
    \/ ResizeEvent
    \/ SceneShift
    \/ AnimationFrame
    \/ \E b \in BufferedChoices : FireTimer(b)

SpecFrame == InitFrame /\ [][NextFrame]_vars

\* ------------------------------------------- slides with a malformed percent
\* binding o with the percents ps in its slides
WithPercent(o, ps) ==
    [ o EXCEPT !.percent = ps,
               !.slides = [ i \in 1..Len(ps) |-> ToNumber(ps[i]) ] ]

\* the short clip with one percent missing, not a number, empty, or a number
\* followed by a unit
MalformedClips ==
    { WithPercent(ShortClip, ps) :
        ps \in { << NoPercent, Num(600) >>, << Num(200), TextPercent >>,
                 << EmptyPercent, Num(600) >>, << Suffixed(200), Num(600) >> } }

InitSlides ==
    /\ \E o \in MalformedClips :
          Created(o, DefaultPage,
                  setSrcSize(videoSizes(o, DefaultPage.aspect), DefaultPage.winWidth))
    /\ HostIdle

SpecSlides == InitSlides /\ [][Next]_vars

\* ------------------------------------------ the classifier module at work
MaxResizes == 2

EnvTickMs == 125

\* the classifiers other code may call
Queries ==
    { stateTests[i] : i \in 1..Len(stateTests) }
        \cup { "isIpadOs", "isKindle", "isKindleFire", "isMacOs" }

\* the browsers: a user agent with navigator.maxTouchPoints; iPadOS reports
\* the user agent of a Mac
Browsers ==
    { [ua |-> u, touch |-> 0] : u \in UserAgents \ { Agent.iPhone } }
        \cup { [ua |-> Agent.iPhone, touch |-> 5], [ua |-> Agent.mac, touch |-> 5] }

\* the page loaded in a phone or in a desktop browser, in a window 1200 wide
\* and 600 high that then changes
InitEnv ==
    /\ Created(DocTop, DefaultPage,
               setSrcSize(videoSizes(DocTop, DefaultPage.aspect),
                          DefaultPage.winWidth))
    /\ videos = << >>
    /\ vidsLoaded = 0
    /\ now = 0
    /\ winHeight = LoadHeight
    /\ throttled = FALSE
    /\ updateScenes = "false"
    /\ rafRequests = 0
    /\ scrollTop = 0
    /\ frameLog = NoFrame
    /\ sceneLog = NoTriggers
    /\ \E b \in { [ua |-> Agent.iPhone, touch |-> 5], [ua |-> Agent.mac, touch |-> 0] } :
          /\ env = Loaded(b.ua, b.touch, 1200, 600)
          /\ envLog = LogAtLoad(b.ua, b.touch, 1200, 600)

\* the page loaded in any of the browsers, in DefaultPage's window
InitAgent ==
    /\ Created(DocTop, DefaultPage,
               setSrcSize(videoSizes(DocTop, DefaultPage.aspect),
                          DefaultPage.winWidth))
    /\ videos = << >>
    /\ vidsLoaded = 0
    /\ now = 0
    /\ winHeight = LoadHeight
    /\ throttled = FALSE
    /\ updateScenes = "false"
    /\ rafRequests = 0
    /\ scrollTop = 0
    /\ frameLog = NoFrame
    /\ sceneLog = NoTriggers
    /\ \E b \in Browsers :
          /\ env = Loaded(b.ua, b.touch, DefaultPage.winWidth, LoadHeight)
          /\ envLog = LogAtLoad(b.ua, b.touch, DefaultPage.winWidth, LoadHeight)

\* some code calls the classifier called name
Query(name) ==
    /\ LET r == classifier(name, env)
       IN  /\ env' = r.env
           /\ envLog' = [envLog EXCEPT !.op = "query", !.name = name,
                                       !.value = r.value, !.threw = r.threw]
    /\ UNCHANGED << playerVars, pageVars, ctrlVars, slideTop, sceneLog >>

\* some code calls getOperatingSystem
QueryOs ==
    /\ LET r == getOperatingSystem(env)
       IN  /\ env' = r.env
           /\ envLog' = [envLog EXCEPT
                           !.op = "query", !.name = "getOperatingSystem",
                           !.value = FALSE, !.threw = r.threw,
                           !.os = [name |-> r.name, version |-> r.version],
                           !.firstOs = IF @.called \/ r.threw THEN @
                                       ELSE [called |-> TRUE, name |-> r.name,
                                             version |-> r.version] ]
    /\ UNCHANGED << playerVars, pageVars, ctrlVars, slideTop, sceneLog >>

\* the window becomes w wide and h high; the module's resize listener calls
\* debouncedPrepEnvironment (), the call's arguments object being the
\* envLog.calls + 1 st
WindowResize(w, h) ==
    /\ envLog.calls < MaxResizes
    /\ << w, h >> # << env.innerWidth, env.innerHeight >>
    /\ env' = debounced([env EXCEPT !.innerWidth = w, !.innerHeight = h],
                        now, envLog.calls + 1)
    /\ envLog' = [envLog EXCEPT !.op = "resize", !.calls = @ + 1,
                                !.lastCallAt = now, !.runs = 0]
    /\ UNCHANGED << playerVars, pageVars, ctrlVars, slideTop, sceneLog >>

\* time passes, not beyond the moment the timer of debounce is due
EnvTick ==
    /\ env.timeout.pending
    /\ now + EnvTickMs <= env.timeout.at
    /\ now' = now + EnvTickMs
    /\ UNCHANGED << videos, vidsLoaded, winHeight, throttled >>
    /\ UNCHANGED << playerVars, ctrlVars, domVars, sceneLog >>

\* the timer of debounce fires: later runs prepEnvironment
DebounceTimeout ==
    /\ env.timeout.pending
    /\ env.timeout.at = now
    /\ env' = later(env)
    /\ envLog' = [envLog EXCEPT !.op = "run", !.runs = @ + 1, !.ranAt = now,
                                !.ranArgs = env.timeout.args]
    /\ UNCHANGED << playerVars, pageVars, ctrlVars, slideTop, sceneLog >>

NextEnv ==
    \/ \E name \in Queries : Query(name)
    \/ QueryOs
    \/ \E w \in { 480, 1200 }, h \in { 600, 1300 } : WindowResize(w, h)
    \/ EnvTick
    \/ DebounceTimeout

SpecEnv == InitEnv /\ [][NextEnv]_vars

NextAgent ==
    \/ \E name \in Queries : Query(name)
    \/ QueryOs

SpecAgent == InitAgent /\ [][NextAgent]_vars

\* --------------------------------------------------------- the easing loop
\* the scroll percentages the page is held at
EasePositions == { 50, 300, 750, 950, 1000 }

FullyBuffered == << [start |-> 0, end |-> 2000] >>

\* a binding whose images are all loaded and whose poll has found the video
\* ready, the timeupdate of the poll's write handled; the page has then been
\* scrolled to percentage sp and stays there: the progress handler has
\* recorded it and adjustScrollPct has set the 10 ms timer
InitEase ==
    /\ \E o \in Bindings, sp \in EasePositions :
          /\ obj = o
          /\ scrollPct = sp
          /\ fallbackImages =
                [ i \in 1..Len(o.slides) |->
                    [start |-> o.slides[i], show |-> (i = 1), status |-> "loaded"] ]
          /\ timers = << [pct |-> jumpToPct(sp), src |-> sp] >>
          /\ sceneState = IF sp < Unit THEN "DURING" ELSE "AFTER"
          /\ size = setSrcSize(videoSizes(o, DefaultPage.aspect), DefaultPage.winWidth)
          /\ slideTop = setupPage(o, DefaultPage.aspect)
          /\ last = [Other EXCEPT !.op = "progress", !.src = sp, !.path = "changed"]
    /\ videoLastFrame = 0
    /\ videoShouldUpdate = FALSE
    /\ readyState = TRUE
    /\ playThroughTimer = FALSE
    /\ loadTimer = 0
    /\ video = [visibility |-> "unset", currentTime |-> 0]
    /\ seeked = FALSE
    /\ still = NoStill
    /\ page = DefaultPage
    /\ jumps = 0
    /\ HostIdle

\* the 10 ms timer fires while the whole video is buffered: jumpToTime (pct);
\* the runs of jumpToTime are not counted
EaseStep ==
    /\ timers # << >>
    /\ jumpToTime(FullyBuffered, Head(timers).pct, Head(timers).src)
    /\ timers' = Tail(timers)
    /\ UNCHANGED << obj, scrollPct, readyState, playThroughTimer, loadTimer,
                    sceneState, page, size, jumps >>
    /\ UNCHANGED hostVars

NextEase ==
    \/ EaseStep
    \/ TimeUpdate

SpecEase == InitEase /\ [][NextEase]_vars

\* a timer that is set fires, and an event in the queue is delivered
SpecEaseFair == SpecEase /\ WF_vars(EaseStep) /\ WF_vars(TimeUpdate)

\* ------------------------------------------------- events closer than 10 ms
MaxPending == 2

\* the "progress" handler for an event that may arrive while the 10 ms timers
\* of earlier events have not fired yet
ProgressInBurst(raw) ==
    LET e == sceneEvent(raw)
        shouldUpdate == IF e.state \in {"BEFORE", "AFTER"} THEN FALSE
                        ELSE videoShouldUpdate
    IN  /\ e.state # ""
        /\ sceneState' = e.state
        /\ videoShouldUpdate' = shouldUpdate
        /\ IF scrollPct # e.progress
           THEN /\ scrollPct' = e.progress
                /\ IF ~shouldUpdate
                   THEN /\ Len(timers) < MaxPending
                        /\ timers' = adjustScrollPct(e.progress)
                   ELSE UNCHANGED timers
           ELSE UNCHANGED << scrollPct, timers >>
        /\ last' = [Other EXCEPT !.op = "progress", !.src = e.progress,
                                  !.path = IF scrollPct = e.progress THEN "same"
                                           ELSE "changed"]
        /\ UNCHANGED << obj, videoLastFrame, readyState, playThroughTimer,
                        fallbackImages, loadTimer, video, seeked, still,
                        page, size, jumps >>
        /\ UNCHANGED hostVars

\* the "timeupdate" listener, likewise
TimeUpdateInBurst ==
    /\ seeked
    /\ seeked' = FALSE
    /\ IF videoShouldUpdate
       THEN /\ Len(timers) < MaxPending
            /\ timers' = adjustScrollPct(scrollPct)
       ELSE UNCHANGED timers
    /\ last' = Other
    /\ UNCHANGED << obj, scrollPct, videoLastFrame, videoShouldUpdate,
                    readyState, playThroughTimer, fallbackImages, loadTimer,
                    video, still, sceneState, page, size, jumps >>
    /\ UNCHANGED hostVars

NextBurst ==
    \/ \E raw \in RawProgress : ProgressInBurst(raw)
    \/ TimeUpdateInBurst
    \/ \E b \in BufferedChoices : FireTimer(b)
    \/ \E enough \in BOOLEAN : PlayThroughTick(enough)

SpecBurst == InitDoc /\ [][NextBurst]_vars

\* ------------------------------------------------- scrolling without an end
\* the page is scrolled again once the video has come to rest
ScrollAtRest(raw) ==
    /\ ~videoShouldUpdate
    /\ ~seeked
    /\ timers = << >>
    /\ SceneUpdate(raw)

\* the page scrolled above the scene, to nine tenths of it and below it
NextRange ==
    \/ \E raw \in { 0 - 100, 900, 1200 } : ScrollAtRest(raw)
    \/ EaseStep
    \/ TimeUpdate

\* a ready binding, its video buffered and its images loaded, scrolled for as
\* long as one likes; the runs of jumpToTime are not counted
SpecRange == InitEase /\ [][NextRange]_vars

\* ------------------------------------------------ the scene's events one by one
\* d.trigger (name, o) for the first event of queue: the handlers registered
\* by startScrollAnimation run, "progress" having the only one with a body
trigger(queue, e, old) ==
    /\ sceneLog' = [ queue |-> Tail(queue), payload |-> e, from |-> old,
                     event |-> Head(queue),
                     open |-> IF Head(queue) = "enter" THEN sceneLog.open + 1
                              ELSE IF Head(queue) = "leave" THEN sceneLog.open - 1
                              ELSE sceneLog.open,
                     flip |-> ~sceneLog.flip ]
    /\ IF Head(queue) = "progress" THEN onProgress(e)
       ELSE UNCHANGED << videoShouldUpdate, scrollPct, timers, last >>

\* Scene.progress (raw) up to the first event it triggers
SceneProgress(raw) ==
    /\ sceneLog.queue = << >>
    /\ sceneEvent(raw).state # ""
    /\ sceneState' = sceneEvent(raw).state
    /\ trigger(sceneTriggers(sceneState, sceneEvent(raw).state), sceneEvent(raw),
               sceneState)
    /\ UNCHANGED << obj, videoLastFrame, readyState, playThroughTimer,
                    fallbackImages, loadTimer, video, seeked, still,
                    page, size, jumps >>
    /\ UNCHANGED << pageVars, ctrlVars, domVars >>

\* the running call of Scene.progress triggers its next event
TriggerNext ==
    /\ sceneLog.queue # << >>
    /\ trigger(sceneLog.queue, sceneLog.payload, sceneLog.from)
    /\ UNCHANGED << obj, videoLastFrame, readyState, playThroughTimer,
                    fallbackImages, loadTimer, video, seeked, still,
                    sceneState, page, size, jumps >>
    /\ UNCHANGED << pageVars, ctrlVars, domVars >>

\* a timer or an event of the video is handled once Scene.progress has returned
NextScene ==
    \/ \E raw \in RawProgress : SceneProgress(raw)
    \/ TriggerNext
    \/ sceneLog.queue = << >> /\ \E b \in BufferedChoices : FireTimer(b)
    \/ sceneLog.queue = << >> /\ TimeUpdate
    \/ sceneLog.queue = << >> /\ \E enough \in BOOLEAN : PlayThroughTick(enough)

SpecScene == InitDoc /\ [][NextScene]_vars

\* ------------------------------------------------------------------ claims
JumpDone == last.op = "jumpToTime"

VideoPath == JumpDone /\ last.path \in {"still", "seek"}

FallbackPath == JumpDone /\ last.path = "fallback"

\* the slide slot a frame lies in: the last slide whose start-percentage is
\* below frame / frameLength, 0 when the frame lies below every slide
SlotOf(frame) ==
    LET below == { k \in 1..Len(obj.slides) :
                     JsLt(OnFrameScale(obj.slides[k], obj.frameLength), frame) }
    IN  IF below = {} THEN 0 ELSE CHOOSE k \in below : \A j \in below : j <= k

SlotEnd(k) == IF k = Len(obj.slides) THEN Unit ELSE obj.slides[k + 1]

\* one buffered range r holds the frame and the whole slot the frame lies in
HoldsFrameAndSlot(r, frame) ==
    /\ OnFrameScale(r.start, obj.frameLength) <= frame
    /\ frame <= OnFrameScale(r.end, obj.frameLength)
    /\ SlotOf(frame) # 0 =>
          /\ JsLe(r.start, obj.slides[SlotOf(frame)])
          /\ JsLe(SlotEnd(SlotOf(frame)), r.end)

\* C1: jumpToTime shows the video and sets its play position only if the
\* ready flag is true and one buffered range covers both the current
\* percentage and the whole [start, end] range of the slide slot that
\* percentage lies in; otherwise it takes the fallback path.
C1_VideoOnlyIfSlotBuffered ==
    VideoPath =>
        /\ readyState
        /\ \E i \in 1..Len(last.buffered) :
              HoldsFrameAndSlot(last.buffered[i], last.frame0)

\* C1 failing input reached: the video was shown while only the first of two
\* slide images had been requested
C1_ShownWhileLoading ==
    VideoPath /\ Len(fallbackImages) < Len(obj.slides)

Shown == { i \in 1..Len(fallbackImages) : fallbackImages[i].show }

\* the image the claim names: greatest start not exceeding the scroll
\* percentage, the first image when the percentage is below every start
NamedImage ==
    LET upTo == { i \in 1..Len(fallbackImages) :
                    JsLe(fallbackImages[i].start, scrollPct) }
    IN  IF upTo = {} THEN 1 ELSE CHOOSE i \in upTo : \A j \in upTo : j <= i

\* C2 as stated: after showFallback the video is hidden and exactly one
\* fallback image is shown, the one with the greatest start-percentage not
\* exceeding the scroll percentage (the first image below the first start).
C2_ExactlyOneShown ==
    FallbackPath =>
        /\ video.visibility = "hidden"
        /\ Shown = { NamedImage }

\* C2 amended: after showFallback the video is hidden, no image whose start
\* exceeds the scroll percentage is shown except the first image when the
\* percentage is below its start, and at a positive percentage every image
\* whose start does not exceed it is shown (not only the latest of them); at
\* percentage 0 an image starting at 0 is not shown.
C2_ShownUpToScroll ==
    FallbackPath =>
        /\ video.visibility = "hidden"
        /\ \A i \in 1..Len(fallbackImages) :
              LET start == fallbackImages[i].start
              IN  /\ JsGt(start, scrollPct) => (i \in Shown <=> i = 1)
                  /\ JsLe(start, scrollPct) => (i \in Shown <=> scrollPct > 0)

C2_TwoShown == FallbackPath /\ Cardinality(Shown) = 2 /\ NamedImage = 2

\* C3: image i+1 is requested only after image i has loaded and the 100 ms
\* timer set by its load callback has fired; an image that has not loaded
\* successfully is the last one requested.
C3_NextAfterLoad ==
    /\ \A i \in 1..Len(fallbackImages) :
          i < Len(fallbackImages) => fallbackImages[i].status = "loaded"
    /\ loadTimer # 0 =>
          /\ loadTimer = Len(fallbackImages) + 1
          /\ fallbackImages[Len(fallbackImages)].status = "loaded"

C3_SecondRequested ==
    /\ Len(fallbackImages) = 2
    /\ fallbackImages[1].status = "loaded"
    /\ fallbackImages[2].status = "requested"
    /\ loadTimer = 0

InFlight == { i \in 1..Len(fallbackImages) : fallbackImages[i].status = "requested" }

\* C4: at most one fallback image request is in flight.
C4_OneInFlight == Cardinality(InFlight) <= 1

C4_LaterInFlight == InFlight = { Len(obj.slides) } /\ Len(obj.slides) > 1

\* C5: with startScroll < endScroll, the target frame jumpToTime computes for a
\* scroll percentage below startScroll is 0 and for one at or above endScroll
\* is frameLength.
C5_ClampOutsideRange ==
    (JumpDone /\ obj.startScroll < obj.endScroll) =>
        /\ last.src < obj.startScroll => last.next = 0
        /\ last.src >= obj.endScroll => last.next = obj.frameLength * Unit

C5_AtEndDuring ==
    /\ JumpDone
    /\ last.src = obj.endScroll
    /\ last.src < Unit
    /\ last.next = obj.frameLength * Unit

\* (p - startScroll) / (endScroll - startScroll) clamped to [0, 1]
Normalized(p) ==
    LET q == Div((p - obj.startScroll) * Unit, obj.endScroll - obj.startScroll)
    IN  IF q < 0 THEN 0 ELSE IF q > Unit THEN Unit ELSE q

\* C6: the percentage handed to jumpToTime is the scroll percentage normalized
\* into [startScroll, endScroll] and clamped to [0, 1], and the target frame is
\* frameLength times it; with frameRate 30, frameLength 600, startScroll 0.1,
\* endScroll 0.9 and scroll percentage 0.5 they are 0.5 and 300.
C6_NormalizedTarget ==
    JumpDone =>
        /\ last.pct = Normalized(last.src)
        /\ last.next = obj.frameLength * Normalized(last.src)
        /\ ( /\ obj.frameRate = 30
             /\ obj.frameLength = 600
             /\ obj.startScroll = 100
             /\ obj.endScroll = 900
             /\ last.src = 500 )
           => (last.pct = 500 /\ last.next = 300 * Unit)

C6_Frame300 ==
    /\ JumpDone
    /\ obj.frameLength = 600
    /\ last.src = 500
    /\ last.pct = 500
    /\ last.next = 300 * Unit

InRegion(k, p) == obj.pauses[k].start <= p /\ p <= obj.pauses[k].end

Inside(k, p) == obj.pauses[k].start < p /\ p < obj.pauses[k].end

\* C7 as stated: for a percentage within a pause region [a, b], endpoints
\* included, the frame sought is frameLength * a whatever the previous frame.
C7_SeeksRegionStart ==
    VideoPath =>
        \A k \in 1..Len(obj.pauses) :
            InRegion(k, last.pct) =>
                videoLastFrame = obj.frameLength * obj.pauses[k].start

\* C7 amended: for a percentage strictly inside a pause region [a, b] (the
\* last-listed such region), the frame sought is one easing step from the
\* previous frame toward frameLength * a, that is
\* prev + (frameLength * a - prev) / stepDivisor; at the endpoints and outside
\* every region it is the frame eased toward the scroll target; the play
\* position is that frame divided by frameRate.
C7_EasesTowardRegionStart ==
    VideoPath =>
        LET inside == { k \in 1..Len(obj.pauses) : Inside(k, last.pct) }
            k0     == CHOOSE k \in inside : \A j \in inside : j <= k
        IN  /\ inside # {} =>
                  videoLastFrame =
                      last.prev + Div(obj.frameLength * obj.pauses[k0].start
                                          - last.prev, stepDivisor)
            /\ inside = {} => videoLastFrame = last.frame0
            /\ video.currentTime = Div(videoLastFrame, obj.frameRate)

C7_Stalled ==
    /\ VideoPath
    /\ \E k \in 1..Len(obj.pauses) : Inside(k, last.pct)
    /\ videoLastFrame # last.frame0
    /\ last.prev > 0

Variants == videoSizes(obj, page.aspect)

VariantSet == { Variants[i] : i \in 1..Len(Variants) }

Qualifies(s) == s * 11 > page.winWidth * 10

\* C8 as stated: the size selected is the smallest variant exceeding the
\* viewport width whenever one exists; [640, 800] at width 700 gives 800.
C8_SmallestExceeding ==
    size # 0 =>
        LET exceeding == { s \in VariantSet : s > page.winWidth }
        IN  /\ exceeding # {} =>
                  (size \in exceeding /\ \A s \in exceeding : size <= s)
            /\ (Variants = << 640, 800 >> /\ page.winWidth = 700) => size = 800

\* C8 amended: the size selected is the first variant in declaration order
\* whose width times 1.1 exceeds the viewport width, whenever one exists;
\* [640, 800] at width 700 gives 640, since 640 * 1.1 = 704.
C8_FirstWithinTenPercent ==
    size # 0 =>
        /\ (\E s \in VariantSet : Qualifies(s)) =>
              \E i \in 1..Len(Variants) :
                  /\ size = Variants[i]
                  /\ Qualifies(Variants[i])
                  /\ \A j \in 1..(i - 1) : ~Qualifies(Variants[j])
        /\ (Variants = << 640, 800 >> /\ page.winWidth = 700) => size = 640

C8_Picks640 == size = 640 /\ Variants = << 640, 800 >> /\ page.winWidth = 700

\* C9 as stated: when no variant qualifies, the size selected is the largest
\* declared variant, in any declaration order.
C9_LargestWhenNone ==
    (size # 0 /\ \A s \in VariantSet : ~Qualifies(s)) =>
        (size \in VariantSet /\ \A s \in VariantSet : s <= size)

\* C9 amended: when no variant qualifies, the size selected is the variant
\* declared last, which is the largest one when the variants are declared in
\* ascending order; [640, 800] at width 1000 gives 800.
C9_LastWhenNone ==
    (size # 0 /\ \A s \in VariantSet : ~Qualifies(s)) =>
        /\ size = Variants[Len(Variants)]
        /\ (\A i \in 1..(Len(Variants) - 1) : Variants[i] <= Variants[i + 1])
              => \A s \in VariantSet : s <= size
        /\ (Variants = << 640, 800 >> /\ page.winWidth = 1000) => size = 800

C9_Picks800 == size = 800 /\ Variants = << 640, 800 >> /\ page.winWidth = 1000

\* C10: a progress event carrying the percentage the handler already holds
\* changes neither the video's visibility or play position, nor a fallback
\* image's show class, nor the still image, and schedules no timer.
C10_RepeatChangesNothing ==
    [][ (last'.op = "progress" /\ last'.path = "same")
            => UNCHANGED << video, fallbackImages, still, timers, scrollPct >> ]_vars

C10_Repeated ==
    /\ last.op = "progress"
    /\ last.path = "same"
    /\ sceneState = "DURING"
    /\ timers # << >>

\* C11 as stated: once a jump has degraded to the fallback image (the video
\* is hidden), every progress event that carries a changed percentage while
\* the scene is DURING schedules jumpToTime, and with it the buffering check.
C11_TickRetriesCheck ==
    [][ ( /\ video.visibility = "hidden"
          /\ last'.op = "progress"
          /\ last'.path = "changed"
          /\ sceneState' = "DURING" )
            => timers' # timers ]_vars

\* C12 as stated: while the ready flag has never been set, after a jump the
\* video is hidden, some fallback image is shown, and the play position has
\* not been written.
C12_NeverReadyShowsFallback ==
    (FallbackPath /\ ~readyState) =>
        /\ video.visibility = "hidden"
        /\ Shown # {}
        /\ video.currentTime = 0
        /\ ~seeked

Bound == { k \in 1..Len(videos) : videos[k].bound }

Called == { k \in 1..Len(videos) : videos[k].called > 0 }

\* C13: a bound video whose canplaythrough has not fired has its load
\* callback called no later than 7500 ms after setSrc, and whatever the videos
\* do, every scrolling video of the page is eventually bound and called back.
C13_AllBoundAfterGrace ==
    /\ [](\A k \in Bound : videos[k].called = 0 => now <= videos[k].boundAt + Grace)
    /\ [](\A k \in Called : videos[k].calledAt <= videos[k].boundAt + Grace)
    /\ <>(Bound = 1..Len(videos) /\ Called = 1..Len(videos))

\* C13 witness: two videos, neither ever playable, both bound and called back
\* by their timers
C13_BothTimedOut ==
    /\ Len(videos) = 2
    /\ Called = {1, 2}
    /\ \A k \in 1..2 : videos[k].calledAt = videos[k].boundAt + Grace
    /\ now = 2 * Grace

\* C14: the videos bound are the first ones in document order, a video is
\* bound only once the load callback of the one before it has fired, and at
\* most one bound video is still waiting for its load callback.
C14_BoundInOrderAfterCallback ==
    /\ \A k \in Bound : \A j \in 1..(k - 1) : j \in Bound /\ j \in Called
    /\ \A k \in Bound : k > 1 => videos[k].boundAt = videos[k - 1].calledAt
    /\ Cardinality(Bound \ Called) <= 1

\* C14 witness: the second video is bound and waiting, the first one called back
C14_SecondBound == Bound = {1, 2} /\ Called = {1}

\* C16 as stated, for the binding whose resize listener runs first: once the
\* resize events have been followed by a quiet period (the 150 ms timer has
\* fired), the scene's offset and duration are those of the window as it is.
C16_GeometryOfFinalSize ==
    ~throttled =>
        /\ videos[1].offset = 0 - (winHeight \div 2)
        /\ videos[1].duration = clientHeight(PageVideo(1), page.aspect) + winHeight

\* C19: a video's size and source url are unset until setSrc binds it, and
\* once it is bound no step changes them: not a resize event, a 150 ms or
\* 7500 ms timer, a canplaythrough event or the passing of time.
C19_SizeAssignedOnce ==
    /\ [](\A k \in 1..Len(videos) :
             IF k \in Bound
             THEN videos[k].size =
                      setSrcSize(videoSizes(PageVideo(k), page.aspect), page.winWidth)
             ELSE videos[k].size = 0 /\ videos[k].url = NoUrl)
    /\ [][ \A k \in Bound : /\ videos'[k].size = videos[k].size
                            /\ videos'[k].url = videos[k].url ]_vars

\* C19 witness: the first video is called back, a resize has moved its scene
\* since, and its size is the one setSrc chose
C19_SizeKeptAfterResize ==
    /\ 1 \in Called
    /\ videos[1].offset # 0 - (LoadHeight \div 2)
    /\ videos[1].size = 1024
    /\ videos[1].url = [base |-> "rendition_asset", size |-> 1024]

\* C15: between two animation frames the container's scroll and resize
\* events, however many, request one animation-frame callback and no more, and a
\* frame computes the scene's progress at most once, whatever the number of
\* callbacks that run in it.
C15_OneUpdatePerFrame ==
    /\ frameLog.requested <= 1
    /\ frameLog.events > 0 => frameLog.requested = 1
    /\ frameLog.runs <= 1

\* C15 witness: a frame that followed two container events and ran more than
\* one callback computed the progress once
C15_BurstThenFrame ==
    /\ frameLog.ran
    /\ frameLog.events = MaxEvents
    /\ frameLog.requested = 1
    /\ frameLog.callbacks > 1
    /\ frameLog.runs = 1
    /\ last.op = "progress"

\* the frame jumpToTime used, recomputed from its inputs: one easing step
\* from the previous frame toward the target frame, kept within the clip
EasedFrame ==
    Clamp(last.prev + Div(last.next - last.prev, stepDivisor),
          0, obj.frameLength * Unit)

\* C17 as stated: when the buffering check passes every fallback image is
\* hidden, the video is visible and its play position is the target frame
\* (frameLength times the normalized percentage, or the frame at the start of
\* the pause region the percentage lies in) divided by the frame rate.
C17_SeeksTargetFrame ==
    VideoPath =>
        LET regions == { k \in 1..Len(obj.pauses) : InRegion(k, last.pct) }
            target  == IF regions = {} THEN last.next
                       ELSE obj.frameLength
                              * obj.pauses[CHOOSE k \in regions : TRUE].start
        IN  /\ Shown = {}
            /\ video.visibility = "visible"
            /\ video.currentTime = Div(target, obj.frameRate)

\* C17 amended: when the buffering check passes every fallback image is
\* hidden, the video is visible and a timeupdate is due, and the play position
\* is the frame used divided by the frame rate (kept within 0..frameLength),
\* where the frame used is one easing step from the previous frame toward the
\* target frame frameLength * pct, or toward the pause region's start frame:
\* it is the target frame only when the previous frame already was.
C17_SeeksEasedFrame ==
    VideoPath =>
        /\ Shown = {}
        /\ video.visibility = "visible"
        /\ seeked
        /\ last.next = obj.frameLength * last.pct
        /\ last.frame0 = EasedFrame
        /\ videoLastFrame \in
              { EasedFrame } \cup
              { last.prev + Div(obj.frameLength * obj.pauses[k].start - last.prev,
                                stepDivisor) : k \in 1..Len(obj.pauses) }
        /\ video.currentTime =
              Clamp(Div(videoLastFrame, obj.frameRate), 0, obj.frameLength * Unit)
        /\ (last.prev = last.next /\ obj.pauses = << >>)
              => video.currentTime = Div(last.next, obj.frameRate)

\* C17 witness: the check passed with the first image loaded, and the frame
\* sought is short of the target
C17_EasedShortOfTarget ==
    /\ VideoPath
    /\ fallbackImages[1].status = "loaded"
    /\ last.prev > 0
    /\ videoLastFrame # last.next
    /\ video.currentTime > 0

Distance == Abs(last.next - videoLastFrame)

\* C18 as stated: when the buffering check passes and the target frame is
\* less than keyFrameLength + 1 frames from the frame used, the still image of
\* that frame is requested and videoShouldUpdate is false; otherwise the still
\* image is hidden and videoShouldUpdate is true.
C18_StillRequestedWhenNear ==
    VideoPath =>
        IF Distance < (obj.keyFrameLength + 1) * Unit
        THEN /\ still.loading
             /\ still.frame = Floor(videoLastFrame)
             /\ ~videoShouldUpdate
        ELSE /\ ~still.show
             /\ still.opacity = 0
             /\ videoShouldUpdate

\* C18 amended: when the check passes the still image is hidden in both
\* cases; near the target (distance below keyFrameLength + 1) the flag is
\* cleared, and the still image of the frame used, rounded down, is requested
\* if the binding declares single_frames and no request is made if it does
\* not; otherwise the flag is set, no still is requested, and the timeupdate
\* that follows the write of the play position schedules the next jump.
C18_StillRequestedIfDeclared ==
    VideoPath =>
        /\ ~still.show
        /\ still.opacity = 0
        /\ seeked
        /\ IF Distance < (obj.keyFrameLength + 1) * Unit
           THEN /\ last.path = "still"
                /\ ~videoShouldUpdate
                /\ obj.singleFrames =>
                      still.loading /\ still.frame = Floor(videoLastFrame)
                /\ ~obj.singleFrames => ~still.loading
           ELSE /\ last.path = "seek"
                /\ videoShouldUpdate

\* C18 witness: a binding with single_frames, near its target after an
\* earlier jump, has the still of the frame used in flight
C18_StillInFlight ==
    /\ VideoPath
    /\ last.path = "still"
    /\ obj.singleFrames
    /\ last.prev > 0
    /\ still.loading

\* C20: the ready flag is false when the binding is created, it is true
\* exactly when the poll timer has been cancelled, it never goes back to
\* false, and the one step that sets it is a poll that observed
\* video.readyState > 3 and cancelled the timer in that same step.
C20_ReadySetOnceByPoll ==
    /\ ~readyState
    /\ [](readyState <=> ~playThroughTimer)
    /\ [][ /\ readyState => readyState'
           /\ (readyState' # readyState) =>
                 /\ playThroughTimer /\ ~playThroughTimer'
                 /\ last'.op = "poll" /\ last'.path = "ready"
           /\ (last'.op = "poll" /\ last'.path = "wait") =>
                 UNCHANGED << readyState, playThroughTimer >> ]_vars

\* C20 witness: the flag is set and a jump has run on the video since
C20_ReadyThenSought == readyState /\ ~playThroughTimer /\ VideoPath

\* a percent that is missing or that Number.parseFloat makes no number of
Malformed(p) == p.kind \in {"undefined", "text", "empty"}

\* C21: a slide whose percent is missing or does not parse as a number counts
\* as a slide at percentage 0 wherever the percentage is used: its annotation
\* is placed at the top of the scroll container, and when the fallback images
\* are shown its image is shown exactly as an image starting at 0 is, that is
\* whenever the scroll percentage is above 0
C21_MalformedPercentIsZero ==
    /\ \A i \in 1..Len(slideTop) : Malformed(obj.percent[i]) => slideTop[i] = 0
    /\ FallbackPath =>
          \A i \in 1..Len(fallbackImages) :
              Malformed(obj.percent[i]) => (fallbackImages[i].show <=> scrollPct > 0)

\* C22: every progress event a scene of positive duration emits carries a
\* progress in [0, 1] and one of the states BEFORE, DURING, AFTER; the progress
\* is 0 in state BEFORE, 1 in state AFTER and at least 0 and below 1 in state
\* DURING, whatever the scroll positions were
C22_ProgressNormalized ==
    [][ last'.op = "progress" =>
          /\ 0 <= last'.src /\ last'.src <= Unit
          /\ sceneState' \in {"BEFORE", "DURING", "AFTER"}
          /\ sceneState' = "BEFORE" => last'.src = 0
          /\ sceneState' = "AFTER" => last'.src = Unit
          /\ sceneState' = "DURING" => (0 <= last'.src /\ last'.src < Unit) ]_vars

\* scrolled into the scene, a seek or fallback done, then back above its start
C22_BackAboveScene ==
    /\ last.op = "progress"
    /\ sceneState = "BEFORE"
    /\ last.src = 0
    /\ scrollPct = 0
    /\ jumps > 0
    /\ videoLastFrame > 0

StateTests == { stateTests[i] : i \in 1..Len(stateTests) }

Queried(name) == envLog.op = "query" /\ envLog.name = name

\* C23 as stated: every classifier returns at each later call the value its
\* first call returned, also after the window has changed and the resize
\* handlers have run
C23_FirstCallWins ==
    /\ \A name \in StateTests :
          Queried(name) => (envLog.value <=> name \in envLog.firstTrue)
    /\ (Queried("getOperatingSystem") /\ envLog.firstOs.called) =>
          /\ envLog.os.name = envLog.firstOs.name
          /\ envLog.os.version = envLog.firstOs.version

\* the classifiers that read the user agent alone
AgentTests == { "isIos", "isAndroid", "isIphone", "isMobile", "isDesktop" }

\* what the tests of the viewport make of a viewport vp
OfViewport(name, vp) ==
    CASE name = "isLandscape" -> vp.width > vp.height
      [] name = "isPortrait" -> vp.width <= vp.height
      [] name = "isWideScreen" -> vp.width * 1029 > 1440 * vp.height
      [] name = "isSmallScreen" -> vp.width <= 740
      [] name = "isLargeScreen" -> vp.width >= 1150

\* C23 as amended: a classifier of the user agent returns at every call what
\* its first call returned; a classifier of the viewport returns what the
\* dimensions measured last by setViewport (at load, then by every run of
\* prepEnvironment) give, and its call measures nothing
C23_AgentKeptViewportAsMeasured ==
    /\ [](/\ \A name \in AgentTests :
                Queried(name) => (envLog.value <=> name \in envLog.firstTrue)
          /\ (Queried("getOperatingSystem") /\ envLog.firstOs.called) =>
                /\ envLog.os.name = envLog.firstOs.name
                /\ envLog.os.version = envLog.firstOs.version)
    /\ [][ \A name \in viewportTests :
              (envLog'.op = "query" /\ envLog'.name = name) =>
                  /\ env'.cachedViewport = env.cachedViewport
                  /\ envLog'.value <=> OfViewport(name, env.cachedViewport) ]_vars

\* the window went from landscape to portrait, the debounced run is still
\* to come, and isLandscape answers true
C23_StaleBeforeRun ==
    /\ Queried("isLandscape")
    /\ envLog.value
    /\ env.innerWidth <= env.innerHeight
    /\ env.timeout.pending

\* the user agent matches none of the patterns of commonOperatingSystems
NoKnownSystem ==
    \A i \in 1..Len(commonOperatingSystems) :
        ~Matches(env.userAgent, commonOperatingSystems[i].pattern)

\* C24: for a user agent that matches none of the known operating-system
\* patterns, neither the load nor any call of a classifier ends in an error,
\* getOperatingSystem returns the name "unknown" with an empty version, and
\* isKindle, isKindleFire, isMacOs, isIpadOs and isMobile return false and
\* isDesktop true
C24_UnknownSystemNoError ==
    NoKnownSystem =>
        /\ ~envLog.threw
        /\ Queried("getOperatingSystem") =>
              (envLog.os.name = "unknown" /\ envLog.os.version = "")
        /\ \A name \in {"isKindle", "isKindleFire", "isMacOs", "isIpadOs", "isMobile"} :
              Queried(name) => envLog.value = FALSE
        /\ Queried("isDesktop") => envLog.value = TRUE

\* getOperatingSystem was called in a browser nothing is known of
C24_UnknownAsked ==
    /\ NoKnownSystem
    /\ Queried("getOperatingSystem")
    /\ envLog.os.name = "unknown"
    /\ env.userAgent = Agent.console

C26_RunsOnceAfterBurst ==
    /\ env.timeout.pending =>
          /\ envLog.runs = 0
          /\ env.timeout.at = envLog.lastCallAt + DebounceWait
          /\ env.timeout.args = envLog.calls
    /\ envLog.op = "run" =>
          /\ envLog.ranAt = envLog.lastCallAt + DebounceWait
          /\ envLog.ranArgs = envLog.calls
    /\ (envLog.calls > 0 /\ ~env.timeout.pending) => envLog.runs = 1

\* two calls 125 ms apart, and the one run 250 ms after the second
C26_RanAfterBurst ==
    /\ envLog.op = "run"
    /\ envLog.calls = 2
    /\ envLog.lastCallAt = EnvTickMs
    /\ envLog.ranAt = EnvTickMs + DebounceWait
    /\ envLog.ranArgs = 2

\* C27: whatever the order of the image load callbacks, the ready polls and
\* the progress updates, the video is visible only if no fallback image has
\* the show class, so the two are never displayed together
C27_NeverVideoAndImage ==
    video.visibility = "visible" => Shown = {}

\* C28: with two or more bindings on the page, a resize event that finds the
\* throttle flag clear recomputes the offset and the duration of the scene of
\* every binding bound so far, not only of the first
C28_ResizeReachesEveryBinding ==
    [][ (winHeight' # winHeight /\ ~throttled) =>
            \A k \in 1..Len(videos) :
                videos[k].bound =>
                    /\ videos'[k].offset = 0 - (winHeight' \div 2)
                    /\ videos'[k].duration =
                          clientHeight(PageVideo(k), page.aspect) + winHeight' ]_vars

\* C29: with the scroll position held fixed and the video fully buffered, the
\* loop of timeupdate events and jumpToTime steps ends: from some step on the
\* animate-toward-target flag is false for good, wherever the target lies
C29_EasingTerminates == <>[](~videoShouldUpdate)

\* C30: at most one jumpToTime timer is pending for the binding at any time,
\* each call of adjustScrollPct having cancelled the timer of the call before
C30_OneTimerPending == Len(timers) <= 1

\* every whole frame of the binding's video, in thousandths of a frame
WholeFrames == { f * Unit : f \in 0..obj.frameLength }

\* C31: the list of fallback images is an in-order prefix of the binding's
\* slides (entry i holds slide i's start-percentage and the list is never
\* longer than the slides), and checkBuffered reads the start of existing
\* entries only, in every loader state, for every whole frame and for the
\* frame jumpToTime has just handed to it.
C31_PrefixAndDefinedReads ==
    /\ Len(fallbackImages) <= Len(obj.slides)
    /\ \A i \in 1..Len(fallbackImages) : fallbackImages[i].start = obj.slides[i]
    /\ \A f \in WholeFrames \cup (IF last.op = "jumpToTime" THEN { last.frame0 } ELSE {}) :
          fallbackReads(Len(obj.slides), f) \subseteq 1..Len(fallbackImages)

\* C31 reached: jumpToTime ran checkBuffered on a ready binding whose second
\* image had not been requested, at a frame beyond the first slide's start
C31_CheckedWhileLoading ==
    /\ last.op = "jumpToTime"
    /\ readyState
    /\ Len(fallbackImages) = 1
    /\ Len(obj.slides) = 2
    /\ JsGt(last.frame0, OnFrameScale(obj.slides[1], obj.frameLength))

\* the sub-range of the scroll and every pause region lie within [0, 1]
BoundsInUnit ==
    /\ 0 <= obj.startScroll /\ obj.startScroll <= obj.endScroll /\ obj.endScroll <= Unit
    /\ \A k \in 1..Len(obj.pauses) :
          /\ 0 <= obj.pauses[k].start
          /\ obj.pauses[k].start <= obj.pauses[k].end
          /\ obj.pauses[k].end <= Unit

\* C32: with start/end and pause bounds in [0, 1], after any sequence of
\* progress updates the last-frame value lies within [0, frameLength] and the
\* play position assigned to the video within [0, frameLength / frameRate],
\* the video's duration.
C32_FramesWithinVideo ==
    BoundsInUnit =>
        /\ 0 <= videoLastFrame
        /\ videoLastFrame <= obj.frameLength * Unit
        /\ 0 <= video.currentTime
        /\ video.currentTime * obj.frameRate <= obj.frameLength * Unit

\* C32 reached: after the page was scrolled back and forth jumpToTime has set a
\* play position in the last tenth of the video
C32_SetNearTheEnd ==
    /\ BoundsInUnit
    /\ last.op = "jumpToTime"
    /\ last.path # "fallback"
    /\ last.prev > 0
    /\ 10 * videoLastFrame > 9 * obj.frameLength * Unit
    /\ 10 * video.currentTime * obj.frameRate > 9 * obj.frameLength * Unit

\* C33: the load callback of each video is called exactly once, by the
\* canplaythrough event or by the 7500 ms timer, whichever comes first, and
\* after it neither is pending, also when both were due at the same moment;
\* so loadVideosAsync has bound exactly the first vidsLoaded videos, one more
\* than have called back, and no step binds a bound video again.
C33_CallbackExactlyOnce ==
    /\ [](\A k \in 1..Len(videos) :
             /\ videos[k].called <= 1
             /\ videos[k].called = 1 =>
                   ~videos[k].listening /\ videos[k].loadNextVideo = 0 - 1)
    /\ [](/\ vidsLoaded = 1 + Cardinality(Called)
          /\ Bound = { k \in 1..Len(videos) : k <= vidsLoaded })
    /\ [][ \A k \in Bound :
              /\ k \in Bound'
              /\ videos'[k].boundAt = videos[k].boundAt
              /\ videos'[k].called >= videos[k].called ]_vars

\* C33 reached: the first of two videos, which has a source, was called back
\* at the very moment its 7500 ms timer was due, the canplaythrough listener
\* still installed then; the second video is bound and the clock has not moved
C33_BothDue ==
    /\ Len(videos) = 2
    /\ videos[1].url # NoUrl
    /\ videos[1].called = 1
    /\ videos[1].calledAt = videos[1].boundAt + Grace
    /\ now = videos[1].calledAt
    /\ videos[2].bound
    /\ videos[2].called = 0

\* C34: the still image is visible only if the most recent jumpToTime took
\* the small-jump branch for the frame the image shows; the video is then
\* visible, the animate-toward-target flag false and the last frame the
\* image's; a load completing after a later large jump or after a switch to
\* the fallback path does not show the image.
C34_StillOnlyAfterSmallJump ==
    still.show =>
        /\ video.visibility = "visible"
        /\ ~videoShouldUpdate
        /\ still.frame = Floor(videoLastFrame)

\* the step triggers the scene's event called name
Emits(name) == sceneLog'.flip # sceneLog.flip /\ sceneLog'.event = name

\* enter and leave alternate beginning with enter, and a progress event comes
\* after an enter that no leave has followed yet
EnterLeaveAlternate ==
    /\ [][Emits("enter") => sceneLog.open = 0]_vars
    /\ [][Emits("leave") => sceneLog.open = 1]_vars
    /\ [][Emits("progress") => sceneLog'.open = 1]_vars

\* C35 as stated: for a scene of positive duration enter and leave strictly
\* alternate beginning with enter, every progress event is emitted between an
\* enter and its leave, and the scene's state is DURING exactly when an enter
\* has been emitted without a matching leave, also on a jump from BEFORE to
\* AFTER or back.
C35_DuringIffEntered ==
    /\ EnterLeaveAlternate
    /\ [](sceneState = "DURING" <=> sceneLog.open = 1)

\* C35 amended: enter and leave strictly alternate beginning with enter and
\* every progress event is emitted between an enter and its leave; once a
\* call of Scene.progress has triggered all its events the state is DURING
\* exactly when an enter has no matching leave. While the call triggers them
\* the state is already the new one and every event carries it: the progress
\* event that precedes a leave, the only one of a jump from BEFORE to AFTER or
\* back, is emitted after the enter and before the leave with state BEFORE or
\* AFTER.
C35_DuringIffEnteredAfterCall ==
    /\ EnterLeaveAlternate
    /\ [](sceneLog.queue = << >> => (sceneState = "DURING" <=> sceneLog.open = 1))
    /\ [](sceneLog.event # "" => sceneLog.payload.state = sceneState)
    /\ [](sceneLog.queue # << >> /\ sceneLog.event = "progress"
             => sceneState # "DURING" /\ sceneLog.open = 1)

\* C35 reached: the page has jumped from above the scene to below it and the
\* progress handler has run, between the enter and the leave, with state AFTER
C35_ProgressOfDirectJump ==
    /\ sceneLog.from = "BEFORE"
    /\ sceneState = "AFTER"
    /\ sceneLog.event = "progress"
    /\ sceneLog.open = 1
    /\ sceneLog.queue = << "end", "leave" >>
    /\ last.op = "progress"

=============================================================================
